---------------------------- MODULE Spec2Model ----------------------------
(***************************************************************************)
(* Model of the financial metal analysis system:                           *)
(*   - BacktestEngine.run_backtest            (src/backtest_engine.py)     *)
(*   - DataCollector.fetch_price_data         (src/data_collector.py)      *)
(*   - FinancialMetalAnalysis.run_command     (src/main.py)                *)
(*   - TelegramSender                         (src/telegram_sender.py)     *)
(*                                                                         *)
(* Python floats are modelled as fixed-point integers: money and prices    *)
(* in units of 1/Scale dollar, share counts in units of 1/ShareScale       *)
(* share.  Every product and quotient is rounded toward zero, so a value   *)
(* of the model is within a few units of the real one.                     *)
(***************************************************************************)
EXTENDS Integers, Sequences, FiniteSets, TLC

VARIABLES
    \* ---- BacktestEngine.run_backtest
    bt_pc,          \* position in run_backtest
    bt_i,           \* number of simulated days so far (bar index 200 + bt_i - 1)
    current_price,  \* Close of the current bar
    capital,        \* cash
    positions,      \* open positions
    trades,         \* completed trades
    equity_curve,   \* equity_curve list
    results,        \* value returned by run_backtest
    bt_data         \* the price history run_backtest is given: "calm" or "volatile"

VARIABLES
    \* ---- DataCollector.fetch_price_data
    f_pc,           \* position in fetch_price_data
    f_args,         \* the arguments of the call
    f_period,       \* the local variable period
    f_t,            \* index of current_ticker in alternative_tickers
    f_attempt,      \* attempt of "for attempt in range(self.retry_count)"
    f_calls,        \* the provider calls made so far, with their outcomes
    f_errors,       \* number of logger.error calls
    f_ret           \* the value returned

VARIABLES
    \* ---- FinancialMetalAnalysis.run_command
    c_pc,           \* position in run_command and the path it called
    c_cmd,          \* the keyword groups present in the command text
    c_send,         \* the send_telegram argument of run_command
    c_enabled,      \* self.telegram.enabled
    c_type,         \* parsed['analysis_type']
    c_path,         \* the method run_command called
    c_send_arg,     \* send_telegram as the called path received it
    c_data,         \* data returned by fetch_price_data
    c_out,          \* what has been produced so far
    c_exc           \* the exception that left run_command, if any

VARIABLES
    \* ---- TelegramSender
    tg_token,       \* TELEGRAM_BOT_TOKEN
    tg_chat,        \* TELEGRAM_CHAT_ID
    tg_pc,          \* position in the send operation
    tg_op,          \* the operation the caller invoked
    tg_args,        \* its arguments
    tg_chunks,      \* chunks of send_message
    tg_k,           \* index of the chunk to post next
    tg_media,       \* media list of send_media_group
    tg_text_ok,     \* text_success of send_full_report
    tg_requests,    \* HTTP requests issued, with their outcomes
    tg_opened,      \* files opened
    tg_ret          \* the value returned

VARIABLES
    \* ---- CacheManager
    cm_files,       \* the cache directory: file name -> content
    cm_now,         \* datetime.now(), in hours
    cm_saved,       \* (asset, period) -> the series of its last save and the
                    \* time of it, while that save succeeded and nothing
                    \* has written the entry since
    cm_call         \* the last call made and what it returned

VARIABLES
    \* ---- a call of PositionManager.calculate_position_size
    ps_pc,          \* "idle", "called" or "returned"
    ps_args,        \* capital, entry_price, stop_loss, risk_pct
    ps_ret          \* the dict returned

VARIABLES
    \* ---- a call of SupportResistance.find_support_resistance_levels
    sr_pc,          \* "idle", "called" or "returned"
    sr_args,        \* data (the bars), order, num_levels
    sr_ret          \* the dict returned

VARIABLES
    \* ---- a position whose stop is trailed by PositionManager.trailing_stop_loss
    ts_pc,          \* "idle" or "open"
    ts_args,        \* entry_price, atr, trailing_multiplier, the first stop
    ts_price,       \* current_price of the last call
    ts_prev,        \* initial_stop of the last call
    ts_stop,        \* the stop the last call returned
    ts_n            \* number of calls made

VARIABLES
    \* ---- one call of PositionManager.rebalance_position
    rb_pc,          \* "idle", "called" or "done"
    rb_args,        \* current_positions, target_allocation
    rb_ret          \* the dict returned, or the exception raised

VARIABLES
    \* ---- one call of CommandParser.is_valid_command
    vc_pc,          \* "idle", "called" or "done"
    vc_args,        \* command, a sequence of characters
    vc_ret          \* << >> until the call returns, then << the bool >>

VARIABLES
    \* ---- one call of PositionManager.create_entry_strategy
    es_pc,          \* "idle", "called" or "done"
    es_args,        \* support_levels, resistance_levels, current_price, atr
    es_ret          \* the strategy returned

btvars == <<bt_pc, bt_i, current_price, capital, positions, trades, equity_curve, results, bt_data>>
fvars == <<f_pc, f_args, f_period, f_t, f_attempt, f_calls, f_errors, f_ret>>

cvars == <<c_pc, c_cmd, c_send, c_enabled, c_type, c_path, c_send_arg, c_data, c_out, c_exc>>

tgvars == <<tg_token, tg_chat, tg_pc, tg_op, tg_args, tg_chunks, tg_k, tg_media,
            tg_text_ok, tg_requests, tg_opened, tg_ret>>

cmvars == <<cm_files, cm_now, cm_saved, cm_call>>

psvars == <<ps_pc, ps_args, ps_ret>>

srvars == <<sr_pc, sr_args, sr_ret>>

tsvars == <<ts_pc, ts_args, ts_price, ts_prev, ts_stop, ts_n>>

rbvars == <<rb_pc, rb_args, rb_ret>>

vcvars == <<vc_pc, vc_args, vc_ret>>

esvars == <<es_pc, es_args, es_ret>>

vars == <<btvars, fvars, cvars, tgvars, cmvars, psvars, srvars, tsvars, rbvars, vcvars, esvars>>

\* what the actions of each component leave alone
bt_rest == <<fvars, cvars, tgvars, cmvars, psvars, srvars, tsvars, rbvars, vcvars, esvars>>
f_rest == <<btvars, cvars, tgvars, cmvars, psvars, srvars, tsvars, rbvars, vcvars, esvars>>
c_rest == <<fvars, tgvars, cmvars, psvars, srvars, tsvars, rbvars, vcvars, esvars>>
tg_rest == <<btvars, fvars, cvars, cmvars, psvars, srvars, tsvars, rbvars, vcvars, esvars>>
cm_rest == <<btvars, fvars, cvars, tgvars, psvars, srvars, tsvars, rbvars, vcvars, esvars>>
ps_rest == <<btvars, fvars, cvars, tgvars, cmvars, srvars, tsvars, rbvars, vcvars, esvars>>
sr_rest == <<btvars, fvars, cvars, tgvars, cmvars, psvars, tsvars, rbvars, vcvars, esvars>>
ts_rest == <<btvars, fvars, cvars, tgvars, cmvars, psvars, srvars, rbvars, vcvars, esvars>>
rb_rest == <<btvars, fvars, cvars, tgvars, cmvars, psvars, srvars, tsvars, vcvars, esvars>>
vc_rest == <<btvars, fvars, cvars, tgvars, cmvars, psvars, srvars, tsvars, rbvars, esvars>>
es_rest == <<btvars, fvars, cvars, tgvars, cmvars, psvars, srvars, tsvars, rbvars, vcvars>>

-----------------------------------------------------------------------------
(* Fixed-point arithmetic *)

Scale == 100 * 100        \* money units per dollar
ShareScale == 10 * 100    \* share units per share
RRScale == 10 * 100       \* units of a risk/reward ratio

Abs(x) == IF x < 0 THEN -x ELSE x

\* a * b / d for a, b >= 0, d > 0, without an intermediate product beyond 2^31
MulDivN(a, b, d) == (a \div d) * b + ((a % d) * b) \div d

\* a * b / d rounded toward zero, for b >= 0, d > 0 and any a
MulDiv(a, b, d) == IF a < 0 THEN -MulDivN(-a, b, d) ELSE MulDivN(a, b, d)

Last(s) == s[Len(s)]

-----------------------------------------------------------------------------
(* Configuration: src/settings.py *)

initial_capital == 10000      \* BACKTEST_CONFIG['initial_capital'], dollars
commission_num == 1           \* BACKTEST_CONFIG['commission'] = 0.001
commission_den == 1000
slippage_num == 5             \* BACKTEST_CONFIG['slippage'] = 0.0005
slippage_den == 10000
stop_loss_multiplier == 2     \* STRATEGY_CONFIG['stop_loss_multiplier']
risk_per_trade_num == 2       \* STRATEGY_CONFIG['risk_per_trade'] = 0.02
risk_per_trade_den == 100

InitCap == initial_capital * Scale

-----------------------------------------------------------------------------
(* PositionManager: src/position_manager.py *)

\* an omitted risk_pct argument (None)
NoRiskPct == <<>>

\* create_entry_strategy(support_levels, resistance_levels, current_price, atr)
CreateEntryStrategy(support_levels, resistance_levels, price, atr) ==
    LET nearest_support == IF support_levels # <<>> THEN support_levels[1]
                           ELSE MulDiv(price, 95, 100)
        nearest_resistance == IF resistance_levels # <<>> THEN resistance_levels[1]
                              ELSE MulDiv(price, 110, 100)
        stop_loss == nearest_support - atr * stop_loss_multiplier
        target_price == nearest_resistance
        risk == price - stop_loss
        reward == target_price - price
        risk_reward_ratio == IF risk > 0 THEN MulDiv(reward, RRScale, risk) ELSE 0
        entry_1 == price
        entry_2 == IF price > nearest_support THEN nearest_support + MulDiv(atr, 5, 10)
                   ELSE MulDiv(price, 98, 100)
        entry_3 == IF Len(support_levels) > 1 THEN support_levels[2]
                   ELSE MulDiv(nearest_support, 97, 100)
    IN [ current_price |-> price,
         entries |-> << [level |-> 1, price |-> entry_1, size_pct |-> 30],
                        [level |-> 2, price |-> entry_2, size_pct |-> 35],
                        [level |-> 3, price |-> entry_3, size_pct |-> 35] >>,
         stop_loss |-> stop_loss,
         target |-> target_price,
         risk_reward_ratio |-> risk_reward_ratio,
         atr_used |-> atr,
         nearest_support |-> nearest_support,
         nearest_resistance |-> nearest_resistance,
         warning |-> risk_reward_ratio < 2 * RRScale ]

\* risk_amount = capital * risk_pct, risk_pct given as a fraction num/den,
\* or omitted: "risk_pct or self.risk_per_trade"
RiskAmount(cap, risk_pct) ==
    IF risk_pct = NoRiskPct \/ risk_pct[1] = 0
    THEN MulDiv(cap, risk_per_trade_num, risk_per_trade_den)
    ELSE MulDiv(cap, risk_pct[1], risk_pct[2])

\* calculate_position_size(capital, entry_price, stop_loss, risk_pct)
CalculatePositionSize(cap, entry_price, stop_loss, risk_pct) ==
    LET risk_amount == RiskAmount(cap, risk_pct)
        risk_per_share == entry_price - stop_loss
    IN IF risk_per_share <= 0
       THEN [ shares |-> 0, position_value |-> 0, risk_amount |-> 0,
              error |-> "Invalid stop-loss" ]
       ELSE LET shares == MulDiv(risk_amount, ShareScale, risk_per_share)
                position_value == MulDiv(shares, entry_price, ShareScale)
            IN [ shares |-> shares,
                 position_value |-> position_value,
                 risk_amount |-> risk_amount,
                 risk_per_share |-> risk_per_share ]

-----------------------------------------------------------------------------
(* BacktestEngine: src/backtest_engine.py *)

\* price * (1 - slippage), price * (1 + slippage)
SlipDown(p) == MulDiv(p, slippage_den - slippage_num, slippage_den)
SlipUp(p) == MulDiv(p, slippage_den + slippage_num, slippage_den)
Commission(v) == MulDiv(v, commission_num, commission_den)

\* shares * price, in money units
Value(shares, p) == MulDiv(shares, p, ShareScale)

\* list.remove(x): drops the first element equal to x
RECURSIVE RemoveFirst(_, _)
RemoveFirst(s, x) ==
    IF s = <<>> THEN <<>>
    ELSE IF s[1] = x THEN Tail(s)
    ELSE <<s[1]>> \o RemoveFirst(Tail(s), x)

\* the record appended to trades when a position is closed at exit_price
ClosedTrade(position, day, exit_price, pnl, reason) ==
    [ entry_date |-> position.entry_date,
      exit_date |-> day,
      entry_price |-> position.entry_price,
      exit_price |-> exit_price,
      shares |-> position.shares,
      pnl |-> pnl,
      exit_reason |-> reason ]

\* pnl of a stop-loss or target exit: price difference minus exit commission
ExitPnl(position, exit_price) ==
    MulDiv(exit_price - position.entry_price, position.shares, ShareScale)
        - Commission(Value(position.shares, exit_price))

\* what the exit adds to capital: "capital += shares * exit_price + pnl"
ExitCredit(position, exit_price, pnl) == Value(position.shares, exit_price) + pnl

\* mutant of ExitCheck: a stopped-out position is dropped without a trade
ExitCheckDropsStopped(st, position, day, price) ==
    IF price <= position.stop_loss
    THEN LET exit_price == SlipDown(position.stop_loss)
             pnl == ExitPnl(position, exit_price)
         IN [ capital |-> st.capital + ExitCredit(position, exit_price, pnl),
              positions |-> RemoveFirst(st.positions, position),
              trades |-> st.trades ]
    ELSE IF price >= position.target
    THEN LET exit_price == SlipDown(position.target)
             pnl == ExitPnl(position, exit_price)
         IN [ capital |-> st.capital + ExitCredit(position, exit_price, pnl),
              positions |-> RemoveFirst(st.positions, position),
              trades |-> Append(st.trades,
                                ClosedTrade(position, day, exit_price, pnl, "target")) ]
    ELSE st

\* mutant of ExitCheck: the target rule is tried before the stop-loss rule
ExitCheckTargetFirst(st, position, day, price) ==
    IF price >= position.target
    THEN LET exit_price == SlipDown(position.target)
             pnl == ExitPnl(position, exit_price)
         IN [ capital |-> st.capital + ExitCredit(position, exit_price, pnl),
              positions |-> RemoveFirst(st.positions, position),
              trades |-> Append(st.trades,
                                ClosedTrade(position, day, exit_price, pnl, "target")) ]
    ELSE IF price <= position.stop_loss
    THEN LET exit_price == SlipDown(position.stop_loss)
             pnl == ExitPnl(position, exit_price)
         IN [ capital |-> st.capital + ExitCredit(position, exit_price, pnl),
              positions |-> RemoveFirst(st.positions, position),
              trades |-> Append(st.trades,
                                ClosedTrade(position, day, exit_price, pnl, "stop_loss")) ]
    ELSE st

\* one iteration of "for position in positions[:]" on state st
ExitCheck(st, position, day, price) ==
    IF price <= position.stop_loss
    THEN LET exit_price == SlipDown(position.stop_loss)
             pnl == ExitPnl(position, exit_price)
         IN [ capital |-> st.capital + ExitCredit(position, exit_price, pnl),
              positions |-> RemoveFirst(st.positions, position),
              trades |-> Append(st.trades,
                                ClosedTrade(position, day, exit_price, pnl, "stop_loss")) ]
    ELSE IF price >= position.target
    THEN LET exit_price == SlipDown(position.target)
             pnl == ExitPnl(position, exit_price)
         IN [ capital |-> st.capital + ExitCredit(position, exit_price, pnl),
              positions |-> RemoveFirst(st.positions, position),
              trades |-> Append(st.trades,
                                ClosedTrade(position, day, exit_price, pnl, "target")) ]
    ELSE st

\* the whole loop over the snapshot positions[:]
RECURSIVE ExitLoop(_, _, _, _)
ExitLoop(st, snapshot, day, price) ==
    IF snapshot = <<>> THEN st
    ELSE ExitLoop(ExitCheck(st, snapshot[1], day, price), Tail(snapshot), day, price)

\* _check_buy_signal(tech, levels, current_price); ind is
\* "rsi oversold or macd bullish"
CheckBuySignal(support_levels, ind, price) ==
    IF support_levels = <<>> THEN FALSE
    ELSE LET nearest_support == support_levels[1]
         \* (price - support) / price < 0.02
         IN (price - nearest_support) * 100 < 2 * price /\ ind

\* mutant of EntryGuard: the check for an open position is dropped
EntryGuardCapitalOnly(pos, cap) == cap > 0

\* "if len(positions) == 0 and capital > 0"
EntryGuard(pos, cap) == Len(pos) = 0 /\ cap > 0

\* total_value = capital + sum of shares * current_price over open positions
RECURSIVE PositionsValue(_, _)
PositionsValue(pos, price) ==
    IF pos = <<>> THEN 0
    ELSE Value(pos[1].shares, price) + PositionsValue(Tail(pos), price)

\* mutant of TotalValue: the open positions are left out of the equity
TotalValueCashOnly(cap, pos, price) == cap

TotalValue(cap, pos, price) == cap + PositionsValue(pos, price)

\* the "if" chain of lines 129-152: the position to open, or <<>> for none
NewPositions(pos, cap, support_levels, resistance_levels, atr, ind, day, price) ==
    IF ~EntryGuard(pos, cap) THEN <<>>
    ELSE IF ~CheckBuySignal(support_levels, ind, price) THEN <<>>
    ELSE LET strategy == CreateEntryStrategy(support_levels, resistance_levels, price, atr)
         IN IF ~(strategy.risk_reward_ratio * 10 >= 15 * RRScale) THEN <<>>
            ELSE LET entry_price == SlipUp(price)
                     size == CalculatePositionSize(MulDiv(cap, 3, 10), entry_price,
                                                   strategy.stop_loss, NoRiskPct)
                     cost == size.position_value + Commission(size.position_value)
                 IN IF size.shares > 0 /\ cost <= cap
                    THEN << [ position |-> [ entry_date |-> day,
                                             entry_price |-> entry_price,
                                             shares |-> size.shares,
                                             stop_loss |-> strategy.stop_loss,
                                             target |-> strategy.target ],
                              cost |-> cost ] >>
                    ELSE <<>>

\* pnl of the forced close at the end of the series: no commission
FinalPnl(position, exit_price) ==
    MulDiv(exit_price - position.entry_price, position.shares, ShareScale)

\* "for position in positions" after the loop: close what is left
RECURSIVE FinalClose(_, _, _, _)
FinalClose(st, rest, day, final_price) ==
    IF rest = <<>> THEN st
    ELSE LET position == rest[1]
             exit_price == SlipDown(final_price)
             pnl == FinalPnl(position, exit_price)
         IN FinalClose([ capital |-> st.capital + Value(position.shares, exit_price),
                         positions |-> st.positions,
                         trades |-> Append(st.trades,
                                ClosedTrade(position, day, exit_price, pnl, "backtest_end")) ],
                       Tail(rest), day, final_price)

RECURSIVE CountTrades(_, _)
CountTrades(ts, sign) ==
    IF ts = <<>> THEN 0
    ELSE (IF ts[1].pnl * sign > 0 THEN 1 ELSE 0) + CountTrades(Tail(ts), sign)

\* _calculate_results(trades, equity_curve, dates)
CalculateResults(ts, curve) ==
    IF ts = <<>>
    THEN [ total_trades |-> 0,
           final_capital |-> InitCap,
           total_return_pct |-> 0,
           error |-> "no trades" ]
    ELSE [ initial_capital |-> InitCap,
           final_capital |-> Last(curve),
           total_return |-> Last(curve) - InitCap,
           \* percent, in units of 1/Scale
           total_return_pct |-> MulDiv(Last(curve) - InitCap, 100, initial_capital),
           total_trades |-> Len(ts),
           winning_trades |-> CountTrades(ts, 1),
           losing_trades |-> CountTrades(ts, -1),
           win_rate |-> (CountTrades(ts, 1) * 100) \div Len(ts),
           equity_curve |-> curve,
           trades |-> ts ]

NoResult == [ pending |-> TRUE ]

-----------------------------------------------------------------------------
(* Bounds and inputs of the backtest *)

MaxDays == 3      \* simulated bars after the 200 warm-up bars

Prices == { 24 * Scale, 25 * Scale, 28 * Scale }
SupportGaps == { Scale \div 20, (3 * Scale) \div 10, (3 * Scale) \div 2 }
ResistanceGaps == { (3 * Scale) \div 2 }
ATRs == { Scale \div 50, Scale \div 5, Scale }

\* levels['support'] / levels['resistance'] of find_support_resistance_levels:
\* supports strictly below, resistances strictly above the current price
SupportChoices(price) == { <<>> } \cup { <<price - g>> : g \in SupportGaps }
ResistanceChoices(price) == { <<>> } \cup { <<price + g>> : g \in ResistanceGaps }

\* a history with wide daily ranges and a distant high: the ATR is a
\* quarter of the price and more, the resistance far above it
VolatilePrices == { 25 * Scale, 60 * Scale, 120 * Scale }
VolatileResistanceGaps == { 52 * Scale }
VolatileATRs == { Scale, 17 * Scale }

\* the bars, levels and ATR of the history the backtest runs on
DataPrices == IF bt_data = "volatile" THEN VolatilePrices ELSE Prices
DataResistanceChoices(price) ==
    IF bt_data = "volatile"
    THEN { <<>> } \cup { <<price + g>> : g \in VolatileResistanceGaps }
    ELSE ResistanceChoices(price)
DataATRs == IF bt_data = "volatile" THEN VolatileATRs ELSE ATRs

BTInit ==
    /\ bt_pc = "loop"
    /\ bt_i = 0
    /\ current_price = 0
    /\ capital = InitCap
    /\ positions = <<>>
    /\ trades = <<>>
    /\ equity_curve = <<InitCap>>
    /\ results = NoResult
    /\ bt_data = "calm"

\* run_backtest on the volatile history
BTInitVolatile ==
    /\ bt_pc = "loop"
    /\ bt_i = 0
    /\ current_price = 0
    /\ capital = InitCap
    /\ positions = <<>>
    /\ trades = <<>>
    /\ equity_curve = <<InitCap>>
    /\ results = NoResult
    /\ bt_data = "volatile"

\* mutant of NextDay: the day goes straight to the entry check
NextDayEntryFirst ==
    /\ bt_pc = "loop"
    /\ bt_i < MaxDays
    /\ \E p \in DataPrices : current_price' = p
    /\ bt_i' = bt_i + 1
    /\ bt_pc' = "entry"
    /\ UNCHANGED <<capital, positions, trades, equity_curve, results>>
    /\ UNCHANGED <<bt_data, bt_rest>>

\* "for i in range(200, len(data))": the next bar, lines 68-72
NextDay ==
    /\ bt_pc = "loop"
    /\ bt_i < MaxDays
    /\ \E p \in DataPrices : current_price' = p
    /\ bt_i' = bt_i + 1
    /\ bt_pc' = "exits"
    /\ UNCHANGED <<capital, positions, trades, equity_curve, results>>
    /\ UNCHANGED <<bt_data, bt_rest>>

\* lines 81-126
ExitChecks ==
    /\ bt_pc = "exits"
    /\ LET st == ExitLoop([capital |-> capital, positions |-> positions, trades |-> trades],
                          positions, bt_i, current_price)
       IN /\ capital' = st.capital
          /\ positions' = st.positions
          /\ trades' = st.trades
    /\ bt_pc' = "entry"
    /\ UNCHANGED <<bt_i, current_price, equity_curve, results>>
    /\ UNCHANGED <<bt_data, bt_rest>>

\* lines 128-166; tech and levels are functions of the bars seen so far
EntryCheck ==
    /\ bt_pc = "entry"
    /\ \E support_levels \in SupportChoices(current_price),
          resistance_levels \in DataResistanceChoices(current_price),
          atr \in DataATRs, ind \in BOOLEAN :
         LET new == NewPositions(positions, capital, support_levels, resistance_levels,
                                 atr, ind, bt_i, current_price)
         IN IF new = <<>>
            THEN UNCHANGED <<capital, positions>>
            ELSE /\ positions' = Append(positions, new[1].position)
                 /\ capital' = capital - new[1].cost
    /\ bt_pc' = "record"
    /\ UNCHANGED <<bt_i, current_price, trades, equity_curve, results>>
    /\ UNCHANGED <<bt_data, bt_rest>>

\* lines 168-174
RecordEquity ==
    /\ bt_pc = "record"
    /\ equity_curve' = Append(equity_curve, TotalValue(capital, positions, current_price))
    /\ bt_pc' = "loop"
    /\ UNCHANGED <<bt_i, current_price, capital, positions, trades, results>>
    /\ UNCHANGED <<bt_data, bt_rest>>

\* lines 176-203: the series has ended
Finish ==
    /\ bt_pc = "loop"
    /\ LET st == FinalClose([capital |-> capital, positions |-> positions, trades |-> trades],
                            positions, bt_i, current_price)
       IN /\ capital' = st.capital
          /\ trades' = st.trades
          /\ results' = CalculateResults(st.trades, equity_curve)
    /\ bt_pc' = "done"
    /\ UNCHANGED <<bt_i, current_price, positions, equity_curve>>
    /\ UNCHANGED <<bt_data, bt_rest>>

BTNext == NextDay \/ ExitChecks \/ EntryCheck \/ RecordEquity \/ Finish

-----------------------------------------------------------------------------
(* DataCollector.fetch_price_data: src/data_collector.py *)

None == "None"

retry_count == 3              \* YAHOO_CONFIG['retry_count']

\* ASSETS of src/asset_config.py: [ticker] + ticker_alternatives
AssetNames == { "silver", "gold" }
AlternativeTickers(asset) ==
    IF asset = "silver" THEN << "SI=F", "SLV", "XAGUSD=X" >>
    ELSE << "GC=F", "GLD", "XAUUSD=X" >>

\* validate_asset_name(asset_name)
ValidateAssetName(asset) == asset \in AssetNames

\* the keys of DATA_CONFIG, src/settings.py
DATA_CONFIG_KEYS == { "source", "default_period", "cache_duration_hours" }
default_period == "10y"

\* lines 64-66: the period after "if period and not start_date"
NormalizePeriod(period, start_date) ==
    IF period # None /\ ~start_date
    THEN IF period \notin DATA_CONFIG_KEYS THEN default_period ELSE period
    ELSE period

\* lines 75-93: what yf.download is asked for
Query(period, start_date, end_date) ==
    IF start_date /\ end_date THEN "range"
    ELSE IF period # None THEN period ELSE default_period

\* outcomes of one pass through the try block: the download or the handling
\* of its result raises, the series is empty, it fails validate_price_data,
\* or it is non-empty and valid
Outcomes == { "raise", "empty", "invalid", "ok" }

\* mutant of Decide: a raised exception abandons the ticker at once
DecideNoRetry(outcome, attempt) ==
    IF outcome = "ok" THEN "return" ELSE "break"

\* mutant of Decide: the validation result is ignored
DecideNoValidation(outcome, attempt) ==
    IF outcome \in { "ok", "invalid" } THEN "return"
    ELSE IF outcome = "empty" THEN "break"
    ELSE IF attempt = retry_count - 1 THEN "break" ELSE "retry"

\* mutant of Decide: an empty series is retried like an exception
DecideRetryOnEmpty(outcome, attempt) ==
    IF outcome = "invalid" THEN "break"
    ELSE IF outcome = "ok" THEN "return"
    ELSE IF attempt = retry_count - 1 THEN "break" ELSE "retry"

\* lines 95-111: what the loop body does with the outcome of an attempt
Decide(outcome, attempt) ==
    IF outcome = "empty" THEN "break"
    ELSE IF outcome = "invalid" THEN "break"
    ELSE IF outcome = "ok" THEN "return"
    ELSE IF attempt = retry_count - 1 THEN "break" ELSE "retry"

\* the series a call returned, identified by the call that produced it
Series(call) == << call.ticker, call.attempt >>

\* f_ret is << >> until the function returns; "return None" leaves the
\* one-element tuple, "return data" the series
ReturnNone == << None >>

\* inputs of a call
AssetInputs == AssetNames \cup { "copper" }
PeriodInputs == { None, "2y", "1mo", "source" }

FIdle ==
    /\ f_pc = "idle"
    /\ f_args = << >>
    /\ f_period = None
    /\ f_t = 0
    /\ f_attempt = 0
    /\ f_calls = << >>
    /\ f_errors = 0
    /\ f_ret = << >>

\* lines 49-66: validation, candidate list and period
FetchPriceData ==
    /\ f_pc = "idle"
    /\ \E asset \in AssetInputs, period \in PeriodInputs,
          start_date \in BOOLEAN, end_date \in BOOLEAN :
         /\ f_args' = [ asset_name |-> asset, period |-> period,
                        start_date |-> start_date, end_date |-> end_date ]
         /\ IF ~ValidateAssetName(asset)
            THEN /\ f_pc' = "done"
                 /\ f_ret' = ReturnNone
                 /\ UNCHANGED <<f_period, f_t>>
            ELSE /\ f_pc' = "try"
                 /\ f_period' = NormalizePeriod(period, start_date)
                 /\ f_t' = 1
                 /\ UNCHANGED f_ret
    /\ UNCHANGED <<f_attempt, f_calls, f_errors>>
    /\ UNCHANGED f_rest

Candidates == AlternativeTickers(f_args.asset_name)

\* lines 73-111: one attempt on the current ticker, with the given outcome
Attempt(outcome) ==
    /\ f_pc = "try"
    /\ f_t <= Len(Candidates)
    /\ LET call == [ ticker |-> Candidates[f_t],
                     attempt |-> f_attempt,
                     query |-> Query(f_period, f_args.start_date, f_args.end_date),
                     outcome |-> outcome ]
           what == Decide(outcome, f_attempt)
       IN /\ f_calls' = Append(f_calls, call)
          /\ CASE what = "return" ->
                    /\ f_ret' = Series(call)
                    /\ f_pc' = "done"
                    /\ UNCHANGED <<f_t, f_attempt>>
               [] what = "break" ->
                    /\ f_t' = f_t + 1
                    /\ f_attempt' = 0
                    /\ UNCHANGED <<f_ret, f_pc>>
               [] what = "retry" ->
                    /\ f_attempt' = f_attempt + 1
                    /\ UNCHANGED <<f_ret, f_pc, f_t>>
    /\ UNCHANGED <<f_args, f_period, f_errors>>
    /\ UNCHANGED f_rest

AttemptOk == Attempt("ok")
AttemptEmpty == Attempt("empty")
AttemptInvalid == Attempt("invalid")
AttemptRaise == Attempt("raise")

\* lines 113-114: every candidate ticker has been abandoned
Exhausted ==
    /\ f_pc = "try"
    /\ f_t > Len(Candidates)
    /\ f_errors' = f_errors + 1
    /\ f_ret' = ReturnNone
    /\ f_pc' = "done"
    /\ UNCHANGED <<f_args, f_period, f_t, f_attempt, f_calls>>
    /\ UNCHANGED f_rest

FNext == FetchPriceData \/ AttemptOk \/ AttemptEmpty \/ AttemptInvalid
            \/ AttemptRaise \/ Exhausted

-----------------------------------------------------------------------------
(* CommandParser._extract_analysis_type: src/command_parser.py *)

\* The command text, as the keyword groups of lines 76-96 that occur in it:
\*   "full"       'tam analiz', 'full analysis', 'komple'
\*   "monte"      'monte carlo', 'simülasyon', 'simulasyon', 'projeksiyon', 'tahmin'
\*   "technical"  'teknik', 'technical', 'gösterge', 'ema', 'rsi', 'macd'
\*   "levels"     'destek', 'direnç', 'support', 'resistance', 'seviye'
\*   "strategy"   'strateji öner', 'strategy', 'giriş noktası'
\*   "backtest"   'backtest', 'test', 'geçmiş'
KeywordGroups == { "full", "monte", "technical", "levels", "strategy", "backtest" }

\* mutant of ExtractAnalysisType: the Monte Carlo keywords are looked at
\* before the full-analysis phrasing
ExtractAnalysisTypeMonteFirst(cmd) ==
    IF "monte" \in cmd THEN "monte_carlo"
    ELSE IF "full" \in cmd THEN "full_analysis"
    ELSE IF "technical" \in cmd THEN "technical"
    ELSE IF "levels" \in cmd THEN "support_resistance"
    ELSE IF "strategy" \in cmd THEN "strategy"
    ELSE IF "backtest" \in cmd THEN "backtest"
    ELSE "full_analysis"

ExtractAnalysisType(cmd) ==
    IF "full" \in cmd THEN "full_analysis"
    ELSE IF "monte" \in cmd THEN "monte_carlo"
    ELSE IF "technical" \in cmd THEN "technical"
    ELSE IF "levels" \in cmd THEN "support_resistance"
    ELSE IF "strategy" \in cmd THEN "strategy"
    ELSE IF "backtest" \in cmd THEN "backtest"
    ELSE "full_analysis"

-----------------------------------------------------------------------------
(* FinancialMetalAnalysis: src/main.py *)

\* the methods class FinancialMetalAnalysis defines
Methods == { "__init__", "run_full_analysis", "run_command",
             "_run_monte_carlo_only", "_run_strategy_only", "_run_backtest" }

\* lines 245-272: the method run_command calls for an analysis type
DispatchTarget(type) ==
    IF type = "full_analysis" THEN "run_full_analysis"
    ELSE IF type = "monte_carlo" THEN "_run_monte_carlo_only"
    ELSE IF type = "technical" THEN "_run_technical_only"
    ELSE IF type = "strategy" THEN "_run_strategy_only"
    ELSE IF type = "backtest" THEN "_run_backtest"
    ELSE "run_full_analysis"

\* the send_telegram value the called path runs with: passed on (lines 249,
\* 258), the default True of run_full_analysis (line 272, 78), or no parameter
DispatchSend(type, send) ==
    IF type \in { "full_analysis", "monte_carlo" } THEN send
    ELSE IF DispatchTarget(type) = "run_full_analysis" THEN TRUE
    ELSE FALSE

\* where a path starts
FirstStep(method) ==
    IF method = "run_full_analysis" THEN "full_fetch"
    ELSE IF method = "_run_monte_carlo_only" THEN "mc_fetch"
    ELSE IF method = "_run_strategy_only" THEN "strategy_fetch"
    ELSE "backtest_fetch"

\* what fetch_price_data can return: a series or None
FetchResults == { None, "data" }

\* mutant of AfterFullFetch: the check "if data is None" is missing
AfterFullFetchNoCheck(data) == "full_analyse"

\* lines 95-97: run_full_analysis after the fetch
AfterFullFetch(data) == IF data = None THEN "full_abort" ELSE "full_analyse"

\* the keys get_all_metrics reads (src/performance_metrics.py:98-104)
MetricsKeys == { "equity_curve", "total_return", "trades" }
\* the keys _run_backtest prints (lines 380-384)
PrintedKeys == { "initial_capital", "final_capital", "total_return_pct",
                 "total_trades", "win_rate" }

CIdle ==
    /\ c_pc = "idle"
    /\ c_cmd = {}
    /\ c_send = FALSE
    /\ c_enabled = FALSE
    /\ c_type = None
    /\ c_path = None
    /\ c_send_arg = FALSE
    /\ c_data = "unset"
    /\ c_out = {}
    /\ c_exc = None

\* the application before run_command is called
CInit ==
    /\ c_pc = "start"
    /\ c_cmd \in SUBSET KeywordGroups
    /\ c_send \in BOOLEAN
    /\ c_enabled \in BOOLEAN
    /\ c_type = None
    /\ c_path = None
    /\ c_send_arg = FALSE
    /\ c_data = "unset"
    /\ c_out = {}
    /\ c_exc = None

bt_frame == UNCHANGED <<btvars, c_rest>>
c_frame == UNCHANGED <<c_cmd, c_send, c_enabled>>

\* run_command, lines 225-272: parse and call the path
Dispatch ==
    /\ c_pc = "start"
    /\ LET type == ExtractAnalysisType(c_cmd)
           method == DispatchTarget(type)
       IN /\ c_type' = type
          /\ c_path' = method
          /\ c_send_arg' = DispatchSend(type, c_send)
          /\ IF method \in Methods
             THEN c_pc' = FirstStep(method) /\ UNCHANGED c_exc
             ELSE c_pc' = "raised" /\ c_exc' = "AttributeError"
    /\ UNCHANGED <<c_data, c_out>>
    /\ c_frame /\ bt_frame

\* a call of self.data_collector.fetch_price_data at position pc
Fetch(pc, next_none, next_data) ==
    /\ c_pc = pc
    /\ \E data \in FetchResults :
         /\ c_data' = data
         /\ c_pc' = IF data = None THEN next_none ELSE next_data
    /\ UNCHANGED <<c_type, c_path, c_send_arg, c_out, c_exc>>
    /\ c_frame

\* a step at position pc that uses data: it raises on None (data.columns),
\* otherwise produces out and goes on to next
UseData(pc, out, next) ==
    /\ c_pc = pc
    /\ IF c_data = None
       THEN c_pc' = "raised" /\ c_exc' = "AttributeError" /\ UNCHANGED c_out
       ELSE c_pc' = next /\ c_out' = c_out \cup out /\ UNCHANGED c_exc
    /\ UNCHANGED <<c_type, c_path, c_send_arg, c_data>>
    /\ c_frame

\* a step at position pc that produces out and goes on to next
Produce(pc, out, next) ==
    /\ c_pc = pc
    /\ c_pc' = next
    /\ c_out' = c_out \cup out
    /\ UNCHANGED <<c_type, c_path, c_send_arg, c_data, c_exc>>
    /\ c_frame

\* ---- run_full_analysis
\* lines 92-93
FullFetch ==
    /\ Fetch("full_fetch", AfterFullFetch(None), AfterFullFetch("data"))
    /\ bt_frame
\* lines 95-97
FullAbort ==
    /\ Produce("full_abort", { "error_logged" }, "returned")
    /\ bt_frame
\* lines 99-131
FullAnalyse ==
    /\ UseData("full_analyse",
               { "technical", "levels", "monte_carlo", "strategy", "scenarios" },
               "full_report")
    /\ bt_frame
\* lines 133-145
FullReport ==
    /\ Produce("full_report", { "report", "report_printed" }, "full_charts")
    /\ bt_frame
\* lines 147-176
FullCharts ==
    /\ Produce("full_charts", { "charts" }, "full_export")
    /\ bt_frame
\* lines 178-193
FullExport ==
    /\ Produce("full_export", { "json_export" }, "full_telegram")
    /\ bt_frame
\* lines 204-219
FullTelegram ==
    /\ Produce("full_telegram",
               IF c_send_arg /\ c_enabled THEN { "telegram_report" } ELSE {},
               "returned")
    /\ bt_frame

\* ---- _run_monte_carlo_only
\* line 285
McFetch ==
    /\ Fetch("mc_fetch", "mc_run", "mc_run")
    /\ bt_frame
\* lines 286-290
McRun ==
    /\ UseData("mc_run", { "monte_carlo" }, "mc_print")
    /\ bt_frame
\* lines 292-301
McPrint ==
    /\ Produce("mc_print", { "monte_carlo_printed" }, "mc_telegram")
    /\ bt_frame
\* lines 304-331
McTelegram ==
    /\ Produce("mc_telegram",
               IF c_send_arg /\ c_enabled THEN { "telegram_message" } ELSE {},
               "returned")
    /\ bt_frame

\* ---- _run_strategy_only
\* line 335
StrategyFetch ==
    /\ Fetch("strategy_fetch", "strategy_run", "strategy_run")
    /\ bt_frame
\* lines 336-344
StrategyRun ==
    /\ UseData("strategy_run", { "technical", "levels", "strategy" }, "strategy_print")
    /\ bt_frame
\* lines 346-355
StrategyPrint ==
    /\ Produce("strategy_print", { "strategy_printed" }, "returned")
    /\ bt_frame

\* ---- _run_backtest
\* lines 359-369
BacktestFetch ==
    /\ Fetch("backtest_fetch", "backtest_run", "backtest_run")
    /\ bt_frame
\* lines 371-372: engine.run_backtest(data) is called
BacktestRun ==
    /\ UseData("backtest_run", {}, "backtest_running")
    /\ IF c_data = None
       THEN UNCHANGED btvars
       ELSE /\ bt_pc' = "loop"
            /\ equity_curve' = <<InitCap>>
            /\ UNCHANGED <<bt_i, current_price, capital, positions, trades, results, bt_data>>
    /\ UNCHANGED c_rest
\* lines 374-375: run_backtest has returned; get_all_metrics(results)
BacktestMetrics ==
    /\ c_pc = "backtest_running"
    /\ bt_pc = "done"
    /\ IF MetricsKeys \subseteq DOMAIN results
       THEN c_pc' = "backtest_print" /\ c_out' = c_out \cup { "backtest", "metrics" }
                /\ UNCHANGED c_exc
       ELSE c_pc' = "raised" /\ c_exc' = "KeyError" /\ c_out' = c_out \cup { "backtest" }
    /\ UNCHANGED <<c_type, c_path, c_send_arg, c_data>>
    /\ c_frame /\ bt_frame
\* lines 377-386
BacktestPrint ==
    /\ c_pc = "backtest_print"
    /\ IF PrintedKeys \subseteq DOMAIN results
       THEN c_pc' = "returned" /\ c_out' = c_out \cup { "backtest_printed" }
                /\ UNCHANGED c_exc
       ELSE c_pc' = "raised" /\ c_exc' = "KeyError" /\ UNCHANGED c_out
    /\ UNCHANGED <<c_type, c_path, c_send_arg, c_data>>
    /\ c_frame /\ bt_frame

CNext ==
    \/ Dispatch
    \/ FullFetch \/ FullAbort \/ FullAnalyse \/ FullReport \/ FullCharts
    \/ FullExport \/ FullTelegram
    \/ McFetch \/ McRun \/ McPrint \/ McTelegram
    \/ StrategyFetch \/ StrategyRun \/ StrategyPrint
    \/ BacktestFetch \/ BacktestRun \/ BacktestMetrics \/ BacktestPrint
    \/ BTNext

-----------------------------------------------------------------------------
(* TelegramSender: src/telegram_sender.py, src/telegram_config.py *)

max_message_length == 4096    \* TELEGRAM_CONFIG['max_message_length']

\* mutant of IsTelegramEnabled: the chat id is not looked at
IsTelegramEnabledTokenOnly(token, chat_id) == token # ""

\* TELEGRAM_CONFIG['enabled'] = bool(TELEGRAM_BOT_TOKEN and TELEGRAM_CHAT_ID)
IsTelegramEnabled(token, chat_id) == token # "" /\ chat_id # ""

\* A text is the sequence of its lines (message.split('\n')), each line
\* given by its length.
RECURSIVE SumLen(_)
SumLen(lines) == IF lines = <<>> THEN 0 ELSE lines[1] + SumLen(Tail(lines))

\* len('\n'.join(lines))
TextLen(lines) == IF lines = <<>> THEN 0 ELSE SumLen(lines) + Len(lines) - 1

\* the "for line in lines" loop of _split_message from line i on
RECURSIVE SplitLoop(_, _, _, _, _)
SplitLoop(lines, i, chunks, current_chunk, current_length) ==
    IF i > Len(lines)
    THEN IF current_chunk # <<>> THEN Append(chunks, current_chunk) ELSE chunks
    ELSE LET line_length == lines[i] + 1
         IN IF current_length + line_length > max_message_length
            THEN SplitLoop(lines, i + 1, Append(chunks, current_chunk),
                           <<lines[i]>>, line_length)
            ELSE SplitLoop(lines, i + 1, chunks,
                           Append(current_chunk, lines[i]),
                           current_length + line_length)

\* _split_message(message): each chunk is the list of lines joined into it
SplitMessage(lines) ==
    IF TextLen(lines) <= max_message_length THEN << lines >>
    ELSE SplitLoop(lines, 1, <<>>, <<>>, 0)

\* split_long_message(message, max_length) of telegram_utils.py: its loop
RECURSIVE SplitLongLoop(_, _, _, _, _, _)
SplitLongLoop(lines, max_length, i, chunks, current_chunk, current_length) ==
    IF i > Len(lines)
    THEN IF current_chunk # <<>> THEN Append(chunks, current_chunk) ELSE chunks
    ELSE LET line_length == lines[i] + 1
         IN IF current_length + line_length > max_length
            THEN SplitLongLoop(lines, max_length, i + 1,
                               Append(chunks, current_chunk),
                               <<lines[i]>>, line_length)
            ELSE SplitLongLoop(lines, max_length, i + 1, chunks,
                               Append(current_chunk, lines[i]),
                               current_length + line_length)

split_long_message(lines, max_length) ==
    IF TextLen(lines) <= max_length THEN << lines >>
    ELSE SplitLongLoop(lines, max_length, 1, <<>>, <<>>, 0)

\* '\n'.join(current_chunk) as a text: the join of no line is the empty
\* string, which is the text of one empty line
JoinLines(current_chunk) == IF current_chunk = <<>> THEN << 0 >> ELSE current_chunk

\* '\n'.join(chunks) as a text, for chunks given as lists of lines
RECURSIVE JoinChunks(_)
JoinChunks(chunks) ==
    IF chunks = <<>> THEN << 0 >>
    ELSE IF Len(chunks) = 1 THEN JoinLines(chunks[1])
    ELSE JoinLines(chunks[1]) \o JoinChunks(Tail(chunks))

\* send_media_group, lines 90-105: photo_paths is the list of paths, each
\* given by whether its file exists; the result is the media list and the
\* files opened
RECURSIVE MediaLoop(_, _, _, _)
MediaLoop(photo_paths, caption, idx, acc) ==
    IF idx >= Len(photo_paths) THEN acc
    ELSE IF ~photo_paths[idx + 1]
    THEN MediaLoop(photo_paths, caption, idx + 1, acc)
    ELSE LET media_item == [ media |-> idx,
                             caption |-> IF idx = 0 /\ caption # None
                                         THEN caption ELSE None ]
         IN MediaLoop(photo_paths, caption, idx + 1,
                      [ media |-> Append(acc.media, media_item),
                        files |-> Append(acc.files, idx) ])

BuildMedia(photo_paths, caption) ==
    MediaLoop(photo_paths, caption, 0, [ media |-> <<>>, files |-> <<>> ])

\* outcome of requests.post: status 200, another status, or an exception
HttpOutcomes == { "200", "error", "raise" }

\* bounds and inputs of the send operations
MaxLines == 3
MaxPhotos == 2
LineLengths == { 0, 1000, 3000, 4096, 5000 }
Messages == UNION { [ 1..n -> LineLengths ] : n \in 1..MaxLines }
PhotoLists == UNION { [ 1..n -> BOOLEAN ] : n \in 0..MaxPhotos }
Captions == { None, "caption" }

TGIdle ==
    /\ tg_token = ""
    /\ tg_chat = ""
    /\ tg_pc = "idle"
    /\ tg_op = None
    /\ tg_args = <<>>
    /\ tg_chunks = <<>>
    /\ tg_k = 0
    /\ tg_media = <<>>
    /\ tg_text_ok = FALSE
    /\ tg_requests = <<>>
    /\ tg_opened = <<>>
    /\ tg_ret = "pending"

\* TelegramSender.__init__ with the environment's token and chat id
TGInit ==
    /\ tg_token \in { "", "token" }
    /\ tg_chat \in { "", "chat" }
    /\ tg_pc = "idle"
    /\ tg_op = None
    /\ tg_args = <<>>
    /\ tg_chunks = <<>>
    /\ tg_k = 0
    /\ tg_media = <<>>
    /\ tg_text_ok = FALSE
    /\ tg_requests = <<>>
    /\ tg_opened = <<>>
    /\ tg_ret = "pending"

enabled == IsTelegramEnabled(tg_token, tg_chat)

tg_config == <<tg_token, tg_chat>>

\* send_media_group from its first line to its first request or its return,
\* called with the given paths and caption
MediaGroupStart(photo_paths, caption) ==
    IF ~enabled
    THEN /\ tg_ret' = FALSE
         /\ tg_pc' = "done"
         /\ UNCHANGED <<tg_media, tg_opened>>
    ELSE LET built == BuildMedia(photo_paths, caption)
         IN /\ tg_opened' = tg_opened \o built.files
            /\ tg_media' = built.media
            /\ IF built.media = <<>>
               THEN tg_ret' = FALSE /\ tg_pc' = "done"
               ELSE tg_pc' = "album" /\ UNCHANGED tg_ret

\* send_message has returned r: lines 44, 47, 50, and for send_full_report
\* lines 136-138 up to the request of send_media_group
MessageReturns(r) ==
    IF tg_op = "send_message"
    THEN /\ tg_ret' = r
         /\ tg_pc' = "done"
         /\ UNCHANGED <<tg_media, tg_opened, tg_text_ok>>
    ELSE /\ tg_text_ok' = r
         /\ MediaGroupStart(tg_args.chart_paths, "caption")

\* send_message(message), lines 28-34
SendMessage ==
    /\ tg_pc = "idle"
    /\ \E message \in Messages :
         /\ tg_op' = "send_message"
         /\ tg_args' = [ message |-> message ]
         /\ IF ~enabled
            THEN /\ tg_ret' = FALSE
                 /\ tg_pc' = "done"
                 /\ UNCHANGED <<tg_chunks, tg_k>>
            ELSE /\ tg_chunks' = SplitMessage(message)
                 /\ tg_k' = 1
                 /\ tg_pc' = "chunks"
                 /\ UNCHANGED tg_ret
    /\ UNCHANGED <<tg_config, tg_media, tg_text_ok, tg_requests, tg_opened>>
    /\ UNCHANGED tg_rest

\* send_full_report(report_text, chart_paths), lines 136-138
SendFullReport ==
    /\ tg_pc = "idle"
    /\ \E message \in Messages, chart_paths \in PhotoLists :
         /\ tg_op' = "send_full_report"
         /\ tg_args' = [ message |-> message, chart_paths |-> chart_paths ]
         /\ IF ~enabled
            THEN \* send_message and send_media_group both return False
                 /\ tg_ret' = FALSE
                 /\ tg_pc' = "done"
                 /\ UNCHANGED <<tg_chunks, tg_k>>
            ELSE /\ tg_chunks' = SplitMessage(message)
                 /\ tg_k' = 1
                 /\ tg_pc' = "chunks"
                 /\ UNCHANGED tg_ret
    /\ UNCHANGED <<tg_config, tg_media, tg_text_ok, tg_requests, tg_opened>>
    /\ UNCHANGED tg_rest

\* mutant of PostChunk: a failed chunk does not stop the loop
PostChunkContinues ==
    /\ tg_pc = "chunks"
    /\ \E outcome \in HttpOutcomes :
         /\ tg_requests' = Append(tg_requests,
                [ method |-> "sendMessage", text |-> tg_chunks[tg_k],
                  outcome |-> outcome ])
         /\ IF tg_k = Len(tg_chunks)
            THEN MessageReturns(outcome = "200") /\ UNCHANGED tg_k
            ELSE /\ tg_k' = tg_k + 1
                 /\ UNCHANGED <<tg_pc, tg_ret, tg_media, tg_opened, tg_text_ok>>
    /\ UNCHANGED <<tg_config, tg_op, tg_args, tg_chunks>>
    /\ UNCHANGED tg_rest

\* one iteration of "for chunk in chunks", lines 36-50
PostChunk ==
    /\ tg_pc = "chunks"
    /\ \E outcome \in HttpOutcomes :
         /\ tg_requests' = Append(tg_requests,
                [ method |-> "sendMessage", text |-> tg_chunks[tg_k],
                  outcome |-> outcome ])
         /\ IF outcome # "200"
            THEN MessageReturns(FALSE) /\ UNCHANGED tg_k
            ELSE IF tg_k = Len(tg_chunks)
            THEN MessageReturns(TRUE) /\ UNCHANGED tg_k
            ELSE /\ tg_k' = tg_k + 1
                 /\ UNCHANGED <<tg_pc, tg_ret, tg_media, tg_opened, tg_text_ok>>
    /\ UNCHANGED <<tg_config, tg_op, tg_args, tg_chunks>>
    /\ UNCHANGED tg_rest

\* send_photo(photo_path, caption), lines 52-65
SendPhoto ==
    /\ tg_pc = "idle"
    /\ \E exists \in BOOLEAN, caption \in Captions :
         /\ tg_op' = "send_photo"
         /\ tg_args' = [ photo_path |-> exists, caption |-> caption ]
         /\ IF ~enabled \/ ~exists
            THEN /\ tg_ret' = FALSE
                 /\ tg_pc' = "done"
                 /\ UNCHANGED tg_opened
            ELSE /\ tg_opened' = Append(tg_opened, 0)
                 /\ tg_pc' = "photo"
                 /\ UNCHANGED tg_ret
    /\ UNCHANGED <<tg_config, tg_chunks, tg_k, tg_media, tg_text_ok, tg_requests>>
    /\ UNCHANGED tg_rest

\* lines 66-82
PostPhoto ==
    /\ tg_pc = "photo"
    /\ \E outcome \in HttpOutcomes :
         /\ tg_requests' = Append(tg_requests,
                [ method |-> "sendPhoto", caption |-> tg_args.caption,
                  outcome |-> outcome ])
         /\ tg_ret' = (outcome = "200")
    /\ tg_pc' = "done"
    /\ UNCHANGED <<tg_config, tg_op, tg_args, tg_chunks, tg_k, tg_media, tg_text_ok,
                   tg_opened>>
    /\ UNCHANGED tg_rest

\* send_media_group(photo_paths, caption), lines 84-108
SendMediaGroup ==
    /\ tg_pc = "idle"
    /\ \E photo_paths \in PhotoLists, caption \in Captions :
         /\ tg_op' = "send_media_group"
         /\ tg_args' = [ photo_paths |-> photo_paths, caption |-> caption ]
         /\ MediaGroupStart(photo_paths, caption)
    /\ UNCHANGED <<tg_config, tg_chunks, tg_k, tg_text_ok, tg_requests>>
    /\ UNCHANGED tg_rest

\* lines 110-132, and line 138 for send_full_report
PostAlbum ==
    /\ tg_pc = "album"
    /\ \E outcome \in HttpOutcomes :
         /\ tg_requests' = Append(tg_requests,
                [ method |-> "sendMediaGroup", media |-> tg_media,
                  outcome |-> outcome ])
         /\ tg_ret' = IF tg_op = "send_full_report"
                      THEN tg_text_ok /\ outcome = "200"
                      ELSE outcome = "200"
    /\ tg_pc' = "done"
    /\ UNCHANGED <<tg_config, tg_op, tg_args, tg_chunks, tg_k, tg_media, tg_text_ok,
                   tg_opened>>
    /\ UNCHANGED tg_rest

TGNext == SendMessage \/ SendFullReport \/ PostChunk \/ SendPhoto \/ PostPhoto
            \/ SendMediaGroup \/ PostAlbum

-----------------------------------------------------------------------------
(* CacheManager: src/cache_manager.py *)

cache_duration_hours == 6     \* DATA_CONFIG['cache_duration_hours']

\* _generate_cache_key: the hash of f"{asset_name}_{period}".  A name is
\* the list of its parts between underscores, so the formatted key is the
\* concatenation of the two lists; the hash is taken to be injective.
GenerateCacheKey(asset_name, period) == asset_name \o period

\* mutant of Expired: an entry exactly as old as max_age is expired
ExpiredAtMaxAge(now, timestamp) == now - timestamp >= cache_duration_hours

\* cache_age > max_age
Expired(now, timestamp) == now - timestamp > cache_duration_hours

\* content of a file of the cache directory
Absent == [ kind |-> "absent" ]
Corrupt == [ kind |-> "corrupt" ]
CacheData(timestamp, asset_name, period, data) ==
    [ kind |-> "cache_data", timestamp |-> timestamp,
      asset_name |-> asset_name, period |-> period, data |-> data ]

\* bounds and inputs: the (asset_name, period) pairs of the calls, the
\* series saved, and the hours the clock runs
CacheArgs == { << << "gold" >>, << "10y" >> >>, << << "silver" >>, << "1y" >> >> }
CacheSeries == { "series1", "series2" }
CacheKeys == { GenerateCacheKey(a[1], a[2]) : a \in CacheArgs }
MaxClock == 8
ClockSteps == { 1, cache_duration_hours }
\* the write of save_to_cache: it succeeds, open() raises, or
\* pickle.dump raises after open() has truncated the file
SaveOutcomes == { "ok", "open_raises", "dump_raises" }

NoCall == [ op |-> "none" ]
NotSaved == << >>

CMIdle ==
    /\ cm_files = << >>
    /\ cm_now = 0
    /\ cm_saved = << >>
    /\ cm_call = NoCall

\* CacheManager.__init__ on an empty cache directory
CMInit ==
    /\ cm_files = [ k \in CacheKeys |-> Absent ]
    /\ cm_now = 0
    /\ cm_saved = [ a \in CacheArgs |-> NotSaved ]
    /\ cm_call = NoCall

\* save_to_cache(data, asset_name, period), lines 64-82
SaveToCache ==
    /\ \E data \in CacheSeries, args \in CacheArgs, outcome \in SaveOutcomes :
         LET asset_name == args[1]
             period == args[2]
             cache_file == GenerateCacheKey(asset_name, period)
         IN /\ cm_files' =
                 IF outcome = "ok"
                 THEN [ cm_files EXCEPT ![cache_file] =
                          CacheData(cm_now, asset_name, period, data) ]
                 ELSE IF outcome = "dump_raises"
                 THEN [ cm_files EXCEPT ![cache_file] = Corrupt ]
                 ELSE cm_files
            /\ cm_saved' = [ cm_saved EXCEPT ![args] =
                 IF outcome = "ok" THEN << data, cm_now >> ELSE NotSaved ]
            /\ cm_call' = [ op |-> "save", ret |-> (outcome = "ok") ]
    /\ UNCHANGED cm_now
    /\ UNCHANGED cm_rest

\* the value load_from_cache returns for the file, lines 102-122
LoadResult(file, now) ==
    IF file.kind = "absent" THEN ReturnNone
    ELSE IF file.kind = "corrupt" THEN ReturnNone
    ELSE IF Expired(now, file.timestamp) THEN ReturnNone
    ELSE << file.data, file.timestamp >>

\* load_from_cache(asset_name, period), lines 99-122
LoadFromCache ==
    /\ \E args \in CacheArgs :
         LET cache_file == GenerateCacheKey(args[1], args[2])
         IN cm_call' = [ op |-> "load", args |-> args, at |-> cm_now,
                         ret |-> LoadResult(cm_files[cache_file], cm_now) ]
    /\ UNCHANGED <<cm_files, cm_now, cm_saved>>
    /\ UNCHANGED cm_rest

\* mutant of ValidResult: an entry exactly max_age old is not valid
ValidResultStrict(file, now) ==
    IF file.kind = "absent" THEN FALSE
    ELSE IF file.kind = "corrupt" THEN FALSE
    ELSE now - file.timestamp < cache_duration_hours

\* the value is_cache_valid returns for the file, lines 141-154
ValidResult(file, now) ==
    IF file.kind = "absent" THEN FALSE
    ELSE IF file.kind = "corrupt" THEN FALSE
    ELSE now - file.timestamp <= cache_duration_hours

\* is_cache_valid(asset_name, period), lines 139-154
IsCacheValid ==
    /\ \E args \in CacheArgs :
         LET cache_file == GenerateCacheKey(args[1], args[2])
         IN cm_call' = [ op |-> "valid", args |-> args, at |-> cm_now,
                         ret |-> ValidResult(cm_files[cache_file], cm_now) ]
    /\ UNCHANGED <<cm_files, cm_now, cm_saved>>
    /\ UNCHANGED cm_rest

\* clear_cache(), lines 163-172
ClearCache ==
    /\ cm_files' = [ k \in CacheKeys |-> Absent ]
    /\ cm_saved' = [ a \in CacheArgs |-> NotSaved ]
    /\ cm_call' = [ op |-> "clear", ret |-> TRUE ]
    /\ UNCHANGED cm_now
    /\ UNCHANGED cm_rest

\* time passes between two calls
ClockAdvances ==
    /\ \E step \in ClockSteps :
         /\ cm_now + step <= MaxClock
         /\ cm_now' = cm_now + step
    /\ UNCHANGED <<cm_files, cm_saved, cm_call>>
    /\ UNCHANGED cm_rest

CMNext == SaveToCache \/ LoadFromCache \/ IsCacheValid \/ ClearCache \/ ClockAdvances

-----------------------------------------------------------------------------
(* A call of PositionManager.calculate_position_size:
   src/position_manager.py *)

\* inputs: capital and prices in 1/Scale dollar, risk_pct as a fraction
SizingCapitals == { 1000 * Scale, initial_capital * Scale }
SizingEntries == { 24 * Scale, 25 * Scale }
SizingStops == { 20 * Scale, 24 * Scale, (49 * Scale) \div 2, 25 * Scale, 26 * Scale }
SizingRiskPcts == { NoRiskPct, << 0, 100 >>, << 1, 100 >>, << 2, 100 >>, << 5, 100 >> }

PSIdle ==
    /\ ps_pc = "idle"
    /\ ps_args = << >>
    /\ ps_ret = << >>

PSInit ==
    /\ ps_pc = "called"
    /\ ps_args \in [ capital : SizingCapitals, entry_price : SizingEntries,
                     stop_loss : SizingStops, risk_pct : SizingRiskPcts ]
    /\ ps_ret = << >>

\* calculate_position_size(capital, entry_price, stop_loss, risk_pct)
CalculatePositionSizeCall ==
    /\ ps_pc = "called"
    /\ ps_ret' = CalculatePositionSize(ps_args.capital, ps_args.entry_price,
                                       ps_args.stop_loss, ps_args.risk_pct)
    /\ ps_pc' = "returned"
    /\ UNCHANGED ps_args
    /\ UNCHANGED ps_rest

PSNext == CalculatePositionSizeCall

-----------------------------------------------------------------------------
(* SupportResistance.find_support_resistance_levels:
   src/support_resistance.py *)

cluster_tolerance_pct == 2    \* _cluster_levels(..., tolerance=0.02)
trailing_bars == 252          \* lows[-252:], highs[-252:]

\* sorted(xs): insertion into an ascending list
RECURSIVE InsertAsc(_, _)
InsertAsc(x, sorted) ==
    IF sorted = << >> THEN << x >>
    ELSE IF x < sorted[1] THEN << x >> \o sorted
    ELSE << sorted[1] >> \o InsertAsc(x, Tail(sorted))

RECURSIVE Sorted(_)
Sorted(xs) == IF xs = << >> THEN << >> ELSE InsertAsc(xs[1], Sorted(Tail(xs)))

RECURSIVE Reversed(_)
Reversed(xs) == IF xs = << >> THEN << >> ELSE Append(Reversed(Tail(xs)), xs[1])

\* sorted(xs, reverse=True)
SortedReverse(xs) == Reversed(Sorted(xs))

\* xs[:n] and xs[-n:] for n >= 0
Take(xs, n) == SubSeq(xs, 1, IF n < Len(xs) THEN n ELSE Len(xs))
Trailing(xs, n) == SubSeq(xs, IF n < Len(xs) THEN Len(xs) - n + 1 ELSE 1, Len(xs))

Contains(xs, x) == \E k \in 1..Len(xs) : xs[k] = x

RECURSIVE Sum(_)
Sum(xs) == IF xs = << >> THEN 0 ELSE xs[1] + Sum(Tail(xs))

\* np.mean
Mean(xs) == Sum(xs) \div Len(xs)

\* the neighbour index argrelextrema looks at, clipped to the array
Clip(i, n) == IF i < 1 THEN 1 ELSE IF i > n THEN n ELSE i

\* lows[argrelextrema(lows, np.less_equal, order)] and
\* highs[argrelextrema(highs, np.greater_equal, order)], in index order
LocalMinima(xs, order) ==
    SelectSeq([ i \in 1..Len(xs) |->
                  IF \A k \in 1..order :
                        /\ xs[i] <= xs[Clip(i + k, Len(xs))]
                        /\ xs[i] <= xs[Clip(i - k, Len(xs))]
                  THEN << xs[i] >> ELSE << >> ],
              LAMBDA e : e # << >>)

LocalMaxima(xs, order) ==
    SelectSeq([ i \in 1..Len(xs) |->
                  IF \A k \in 1..order :
                        /\ xs[i] >= xs[Clip(i + k, Len(xs))]
                        /\ xs[i] >= xs[Clip(i - k, Len(xs))]
                  THEN << xs[i] >> ELSE << >> ],
              LAMBDA e : e # << >>)

Unwrap(es) == [ k \in 1..Len(es) |-> es[k][1] ]

\* the loop of _cluster_levels over the sorted levels, lines 123-136
RECURSIVE ClusterLoop(_, _, _)
ClusterLoop(levels, clustered, current_cluster) ==
    IF levels = << >> THEN Append(clustered, Mean(current_cluster))
    ELSE LET level == levels[1]
             cluster_mean == Mean(current_cluster)
         IN IF Abs(level - cluster_mean) * 100 <= cluster_tolerance_pct * cluster_mean
            THEN ClusterLoop(Tail(levels), clustered, Append(current_cluster, level))
            ELSE ClusterLoop(Tail(levels), Append(clustered, cluster_mean), << level >>)

\* _cluster_levels(levels, tolerance=0.02)
ClusterLevels(levels) ==
    IF levels = << >> THEN << >>
    ELSE LET sorted == Sorted(levels)
         IN ClusterLoop(Tail(sorted), << >>, << sorted[1] >>)

\* the backfill loops, lines 74-78 and 82-86; below tells the side
RECURSIVE Backfill(_, _, _, _, _)
Backfill(recent, levels, last_close, num_levels, below) ==
    IF recent = << >> THEN levels
    ELSE LET x == recent[1]
             beyond == IF below THEN x < last_close ELSE x > last_close
             added == IF beyond /\ ~Contains(levels, x) THEN Append(levels, x)
                      ELSE levels
         IN IF Len(added) >= num_levels THEN added
            ELSE Backfill(Tail(recent), added, last_close, num_levels, below)

\* mutant of SupportBelow: a level at the current price counts as support
SupportBelowOrAt(support_levels, last_close) ==
    SelectSeq(support_levels, LAMBDA x : x <= last_close)

\* line 64
SupportBelow(support_levels, last_close) ==
    SelectSeq(support_levels, LAMBDA x : x < last_close)

\* line 68
ResistanceAbove(resistance_levels, last_close) ==
    SelectSeq(resistance_levels, LAMBDA x : x > last_close)

\* find_support_resistance_levels(data, order, num_levels); data is the
\* list of bars [Low, High, Close]
FindSupportResistanceLevels(data, order, num_levels) ==
    LET closes == [ k \in 1..Len(data) |-> data[k].Close ]
        highs == [ k \in 1..Len(data) |-> data[k].High ]
        lows == [ k \in 1..Len(data) |-> data[k].Low ]
        support_levels == ClusterLevels(Unwrap(LocalMinima(lows, order)))
        resistance_levels == ClusterLevels(Unwrap(LocalMaxima(highs, order)))
        last_close == closes[Len(closes)]
        support_below ==
            Take(SortedReverse(SupportBelow(support_levels, last_close)), num_levels)
        resistance_above ==
            Take(Sorted(ResistanceAbove(resistance_levels, last_close)), num_levels)
        support_filled ==
            IF Len(support_below) < num_levels
            THEN Backfill(Take(Sorted(Trailing(lows, trailing_bars)), num_levels),
                          support_below, last_close, num_levels, TRUE)
            ELSE support_below
        resistance_filled ==
            IF Len(resistance_above) < num_levels
            THEN Backfill(Take(SortedReverse(Trailing(highs, trailing_bars)), num_levels),
                          resistance_above, last_close, num_levels, FALSE)
            ELSE resistance_above
    IN [ support |-> Take(SortedReverse(support_filled), num_levels),
         resistance |-> Take(Sorted(resistance_filled), num_levels),
         current_price |-> last_close ]

\* bounds and inputs: bars with Low <= Close <= High
MaxBars == 3
LevelValues == { 24 * Scale, (121 * Scale) \div 5, 26 * Scale }
Bars == { b \in [ Low : LevelValues, High : LevelValues, Close : LevelValues ] :
            b.Low <= b.Close /\ b.Close <= b.High }
Orders == { 1, 5 }
NumLevels == { 1, 2, 3 }

SRIdle ==
    /\ sr_pc = "idle"
    /\ sr_args = << >>
    /\ sr_ret = << >>

SRInit ==
    /\ sr_pc = "called"
    /\ sr_args \in [ data : UNION { [ 1..n -> Bars ] : n \in 1..MaxBars },
                     order : Orders, num_levels : NumLevels ]
    /\ sr_ret = << >>

FindSupportResistanceLevelsCall ==
    /\ sr_pc = "called"
    /\ sr_ret' = FindSupportResistanceLevels(sr_args.data, sr_args.order,
                                             sr_args.num_levels)
    /\ sr_pc' = "returned"
    /\ UNCHANGED sr_args
    /\ UNCHANGED sr_rest

SRNext == FindSupportResistanceLevelsCall

-----------------------------------------------------------------------------
(* PositionManager.trailing_stop_loss: src/position_manager.py *)

\* mutant of TrailingStopLoss: the new stop is not compared with the old
TrailingStopLossNoMax(entry_price, price, initial_stop, atr, trailing_multiplier) ==
    IF price > entry_price
    THEN price - MulDiv(atr, trailing_multiplier, 10)
    ELSE initial_stop

\* trailing_stop_loss(entry_price, current_price, initial_stop, atr,
\* trailing_multiplier); the multiplier is given in tenths
TrailingStopLoss(entry_price, price, initial_stop, atr, trailing_multiplier) ==
    IF price > entry_price
    THEN LET new_stop == price - MulDiv(atr, trailing_multiplier, 10)
         IN IF new_stop > initial_stop THEN new_stop ELSE initial_stop
    ELSE initial_stop

\* bounds and inputs
MaxTrailCalls == 3
TrailEntries == { 25 * Scale }
TrailStops == { 23 * Scale, 24 * Scale }
TrailATRs == { 0, Scale \div 2, Scale }
TrailMultipliers == { 15, 20 }
TrailPrices == { 24 * Scale, 25 * Scale, 26 * Scale, 27 * Scale, 28 * Scale }

TSIdle ==
    /\ ts_pc = "idle"
    /\ ts_args = << >>
    /\ ts_price = 0
    /\ ts_prev = 0
    /\ ts_stop = 0
    /\ ts_n = 0

\* a position has been opened with its first stop
TSInit ==
    /\ ts_pc = "open"
    /\ ts_args \in [ entry_price : TrailEntries, initial_stop : TrailStops,
                     atr : TrailATRs, trailing_multiplier : TrailMultipliers ]
    /\ ts_price = ts_args.entry_price
    /\ ts_prev = ts_args.initial_stop
    /\ ts_stop = ts_args.initial_stop
    /\ ts_n = 0

\* a call of trailing_stop_loss at the next price, with the stop of the
\* call before as initial_stop
TrailingStopLossCall ==
    /\ ts_pc = "open"
    /\ ts_n < MaxTrailCalls
    /\ \E price \in TrailPrices :
         /\ ts_price' = price
         /\ ts_stop' = TrailingStopLoss(ts_args.entry_price, price, ts_stop,
                                        ts_args.atr, ts_args.trailing_multiplier)
    /\ ts_prev' = ts_stop
    /\ ts_n' = ts_n + 1
    /\ UNCHANGED <<ts_pc, ts_args>>
    /\ UNCHANGED ts_rest

TSNext == TrailingStopLossCall

-----------------------------------------------------------------------------
(* PositionManager.rebalance_position: src/position_manager.py.  Values
   are whole dollars, percentages whole percents. *)

rebalance_threshold_pct == 5

\* sum(p['value'] for p in current_positions)
RECURSIVE TotalPositionsValue(_, _)
TotalPositionsValue(current_positions, i) ==
    IF i > Len(current_positions) THEN 0
    ELSE current_positions[i].value + TotalPositionsValue(current_positions, i + 1)

\* target_allocation.get(asset, 0)
TargetPct(target_allocation, asset) ==
    IF asset \in DOMAIN target_allocation THEN target_allocation[asset] ELSE 0

\* diff = total_value * (target_pct / 100) - current_value
RebalanceDiff(position, total_value, target_allocation) ==
    (total_value * TargetPct(target_allocation, position.asset)) \div 100
        - position.value

\* abs(diff_pct) > 5, with diff_pct = diff / current_value * 100 if
\* current_value > 0 else 0
RebalanceFlagged(position, total_value, target_allocation) ==
    /\ position.value > 0
    /\ Abs(RebalanceDiff(position, total_value, target_allocation)) * 100
         > rebalance_threshold_pct * position.value

\* the entry appended for a flagged position; current_pct is in hundredths
\* of a percent
RebalanceAction(position, total_value, target_allocation) ==
    LET diff == RebalanceDiff(position, total_value, target_allocation)
    IN [ asset |-> position.asset,
         current_pct |-> (position.value * 100 * 100) \div total_value,
         target_pct |-> TargetPct(target_allocation, position.asset),
         action |-> IF diff > 0 THEN "Al" ELSE "Sat",
         amount |-> Abs(diff) ]

\* the loop over current_positions
RECURSIVE RebalanceLoop(_, _, _, _)
RebalanceLoop(current_positions, total_value, target_allocation, i) ==
    IF i > Len(current_positions) THEN << >>
    ELSE LET rest == RebalanceLoop(current_positions, total_value,
                                   target_allocation, i + 1)
         IN IF RebalanceFlagged(current_positions[i], total_value,
                                target_allocation)
            THEN << RebalanceAction(current_positions[i], total_value,
                                    target_allocation) >> \o rest
            ELSE rest

\* rebalance_position(current_positions, target_allocation): with positions
\* whose values sum to 0 the division of line 324 raises
RebalancePosition(current_positions, target_allocation) ==
    LET total_value == TotalPositionsValue(current_positions, 1)
    IN IF Len(current_positions) > 0 /\ total_value = 0
       THEN [ raised |-> "ZeroDivisionError" ]
       ELSE LET rebalancing == RebalanceLoop(current_positions, total_value,
                                             target_allocation, 1)
            IN [ total_portfolio_value |-> total_value,
                 rebalancing_needed |-> Len(rebalancing) > 0,
                 actions |-> rebalancing ]

\* inputs
RebalanceAssets == { "gold", "silver" }
RebalanceValues == { 0, 1000, 5000, 9000 }
RebalanceTargets == { 10, 46, 54 }
RebalancePositionLists ==
    { << >> }
    \cup { << [ asset |-> a, value |-> v ] >> :
             a \in RebalanceAssets, v \in RebalanceValues }
    \cup { << [ asset |-> "gold", value |-> v ], [ asset |-> "silver", value |-> w ] >> :
             v \in RebalanceValues, w \in RebalanceValues }
RebalanceAllocations ==
    UNION { [ S -> RebalanceTargets ] : S \in SUBSET RebalanceAssets }

RBIdle ==
    /\ rb_pc = "idle"
    /\ rb_args = << >>
    /\ rb_ret = << >>

RBInit ==
    /\ rb_pc = "called"
    /\ rb_args \in [ current_positions : RebalancePositionLists,
                     target_allocation : RebalanceAllocations ]
    /\ rb_ret = << >>

RebalancePositionCall ==
    /\ rb_pc = "called"
    /\ rb_pc' = "done"
    /\ rb_ret' = RebalancePosition(rb_args.current_positions,
                                   rb_args.target_allocation)
    /\ UNCHANGED rb_args
    /\ UNCHANGED rb_rest

RBNext == RebalancePositionCall

-----------------------------------------------------------------------------
(* CommandParser on the text of a command: src/command_parser.py.  A text
   is a sequence of characters; a letter outside ASCII is written by its
   name. *)

\* self.assets and self.analysis_types of __init__
assets ==
    << <<"s", "i", "l", "v", "e", "r">>,
       <<"g", "o", "l", "d">>,
       <<"g", "u_diaeresis", "m", "u_diaeresis", "s_cedilla">>,
       <<"a", "l", "t", "dotless_i", "n">>,
       <<"x", "a", "g">>,
       <<"x", "a", "u">> >>
analysis_types ==
    << <<"m", "o", "n", "t", "e", " ", "c", "a", "r", "l", "o">>,
       <<"t", "e", "k", "n", "i", "k">>,
       <<"a", "n", "a", "l", "i", "z">>,
       <<"s", "t", "r", "a", "t", "e", "j", "i">>,
       <<"b", "a", "c", "k", "t", "e", "s", "t">>,
       <<"p", "r", "o", "j", "e", "k", "s", "i", "y", "o", "n">>,
       <<"t", "a", "h", "m", "i", "n">>,
       <<"s", "e", "n", "a", "r", "y", "o">>,
       <<"d", "e", "s", "t", "e", "k">>,
       <<"d", "i", "r", "e", "n", "c_cedilla">> >>

\* the keyword lists of _extract_asset
silver_keywords ==
    << <<"g", "u_diaeresis", "m", "u_diaeresis", "s_cedilla">>,
       <<"g", "u", "m", "u", "s">>,
       <<"s", "i", "l", "v", "e", "r">>,
       <<"x", "a", "g">>,
       <<"a", "g">> >>
gold_keywords ==
    << <<"a", "l", "t", "dotless_i", "n">>,
       <<"a", "l", "t", "i", "n">>,
       <<"g", "o", "l", "d">>,
       <<"x", "a", "u">>,
       <<"a", "u">> >>

\* the keyword lists of _extract_analysis_type
FullKeywords ==
    << <<"t", "a", "m", " ", "a", "n", "a", "l", "i", "z">>,
       <<"f", "u", "l", "l", " ", "a", "n", "a", "l", "y", "s", "i", "s">>,
       <<"k", "o", "m", "p", "l", "e">> >>
MonteKeywords ==
    << <<"m", "o", "n", "t", "e", " ", "c", "a", "r", "l", "o">>,
       <<"s", "i", "m", "u_diaeresis", "l", "a", "s", "y", "o", "n">>,
       <<"s", "i", "m", "u", "l", "a", "s", "y", "o", "n">>,
       <<"p", "r", "o", "j", "e", "k", "s", "i", "y", "o", "n">>,
       <<"t", "a", "h", "m", "i", "n">> >>
TechnicalKeywords ==
    << <<"t", "e", "k", "n", "i", "k">>,
       <<"t", "e", "c", "h", "n", "i", "c", "a", "l">>,
       <<"g", "o_diaeresis", "s", "t", "e", "r", "g", "e">>,
       <<"e", "m", "a">>,
       <<"r", "s", "i">>,
       <<"m", "a", "c", "d">> >>
LevelsKeywords ==
    << <<"d", "e", "s", "t", "e", "k">>,
       <<"d", "i", "r", "e", "n", "c_cedilla">>,
       <<"s", "u", "p", "p", "o", "r", "t">>,
       <<"r", "e", "s", "i", "s", "t", "a", "n", "c", "e">>,
       <<"s", "e", "v", "i", "y", "e">> >>
StrategyKeywords ==
    << <<"s", "t", "r", "a", "t", "e", "j", "i", " ", "o_diaeresis", "n", "e", "r">>,
       <<"s", "t", "r", "a", "t", "e", "g", "y">>,
       <<"g", "i", "r", "i", "s_cedilla", " ", "n", "o", "k", "t", "a", "s", "dotless_i">> >>
BacktestKeywords ==
    << <<"b", "a", "c", "k", "t", "e", "s", "t">>,
       <<"t", "e", "s", "t">>,
       <<"g", "e", "c_cedilla", "m", "i", "s_cedilla">> >>

\* keyword in command
In(keyword, command) ==
    \E i \in 0..(Len(command) - Len(keyword)) :
        SubSeq(command, i + 1, i + Len(keyword)) = keyword

\* any(keyword in command for keyword in keywords)
AnyIn(keywords, command) ==
    \E k \in 1..Len(keywords) : In(keywords[k], command)

\* str.lower, on the capitals of the inputs
LowerChar(c) ==
    CASE c = "G" -> "g" [] c = "R" -> "r" [] c = "S" -> "s" [] c = "I" -> "i"
      [] OTHER -> c
Lower(command) == [ i \in 1..Len(command) |-> LowerChar(command[i]) ]

\* str.strip
RECURSIVE LStrip(_)
LStrip(command) ==
    IF command # << >> /\ Head(command) = " " THEN LStrip(Tail(command))
    ELSE command
RECURSIVE RStrip(_)
RStrip(command) ==
    IF command # << >> /\ command[Len(command)] = " "
    THEN RStrip(SubSeq(command, 1, Len(command) - 1))
    ELSE command
Strip(command) == RStrip(LStrip(command))

\* _extract_asset
ExtractAsset(command) ==
    IF AnyIn(silver_keywords, command) THEN "silver"
    ELSE IF AnyIn(gold_keywords, command) THEN "gold"
    ELSE "silver"

\* the keyword groups of _extract_analysis_type that occur in the command
GroupsIn(command) ==
    { g \in KeywordGroups :
        AnyIn(CASE g = "full" -> FullKeywords
                [] g = "monte" -> MonteKeywords
                [] g = "technical" -> TechnicalKeywords
                [] g = "levels" -> LevelsKeywords
                [] g = "strategy" -> StrategyKeywords
                [] g = "backtest" -> BacktestKeywords, command) }

\* parse_command: asset and analysis_type of the result
ParseCommand(command) ==
    LET lowered == Strip(Lower(command))
    IN [ asset |-> ExtractAsset(lowered),
         analysis_type |-> ExtractAnalysisType(GroupsIn(lowered)) ]

\* is_valid_command
IsValidCommand(command) ==
    IF command = << >> \/ Len(Strip(command)) < 3 THEN FALSE
    ELSE LET lowered == Lower(command)
             has_asset == AnyIn(assets, lowered)
             has_analysis == AnyIn(analysis_types, lowered)
         IN has_asset \/ has_analysis

\* inputs: texts of one or two words, with or without blanks around them
CommandWords ==
    { <<"r", "s", "i">>,
      <<"R", "S", "I">>,
      <<"m", "a", "c", "d">>,
      <<"g", "u", "m", "u", "s">>,
      <<"a", "g">>,
      <<"a", "u">>,
      <<"o", "k">>,
      <<"h", "i">>,
      <<"f", "i", "y", "a", "t">>,
      <<"a", "n", "a", "l", "i", "z">>,
      <<"s", "e", "n", "a", "r", "y", "o">>,
      <<"t", "e", "s", "t">>,
      <<"g", "o", "l", "d">>,
      <<"G", "o", "l", "d">>,
      <<"x", "a", "u">>,
      <<"k", "o", "m", "p", "l", "e">>,
      <<"t", "e", "k", "n", "i", "k">>,
      <<"s", "t", "r", "a", "t", "e", "g", "y">>,
      <<"s", "t", "r", "a", "t", "e", "j", "i">>,
      <<"g", "u_diaeresis", "m", "u_diaeresis", "s_cedilla">> }
CommandTexts ==
    LET phrases == CommandWords
                     \cup { v \o << " " >> \o w : v \in CommandWords, w \in CommandWords }
    IN { << >> } \cup phrases \cup { << " " >> \o t \o << " ", " " >> : t \in phrases }

VCIdle ==
    /\ vc_pc = "idle"
    /\ vc_args = << >>
    /\ vc_ret = << >>

VCInit ==
    /\ vc_pc = "called"
    /\ vc_args \in CommandTexts
    /\ vc_ret = << >>

IsValidCommandCall ==
    /\ vc_pc = "called"
    /\ vc_pc' = "done"
    /\ vc_ret' = << IsValidCommand(vc_args) >>
    /\ UNCHANGED vc_args
    /\ UNCHANGED vc_rest

VCNext == IsValidCommandCall

-----------------------------------------------------------------------------
(* A call of PositionManager.create_entry_strategy with the levels of
   find_support_resistance_levels: supports below the price, nearest
   first, resistances above it. *)

StrategyPrices == { 24 * Scale, 25 * Scale, 28 * Scale }
StrategyATRs == { 0, Scale \div 50, Scale \div 5, Scale }
StrategySupportGaps == { Scale \div 20, (3 * Scale) \div 10, (3 * Scale) \div 2, 5 * Scale }
StrategySupports(price) ==
    { <<>> }
    \cup { << price - g >> : g \in StrategySupportGaps }
    \cup { << price - gaps[1], price - gaps[2] >> :
             gaps \in { pair \in StrategySupportGaps \X StrategySupportGaps :
                          pair[1] < pair[2] } }

ESIdle ==
    /\ es_pc = "idle"
    /\ es_args = << >>
    /\ es_ret = << >>

ESInit ==
    /\ es_pc = "called"
    /\ \E price \in StrategyPrices :
         es_args \in [ support_levels : StrategySupports(price),
                       resistance_levels : ResistanceChoices(price),
                       current_price : { price },
                       atr : StrategyATRs ]
    /\ es_ret = << >>

CreateEntryStrategyCall ==
    /\ es_pc = "called"
    /\ es_pc' = "done"
    /\ es_ret' = CreateEntryStrategy(es_args.support_levels, es_args.resistance_levels,
                                     es_args.current_price, es_args.atr)
    /\ UNCHANGED es_args
    /\ UNCHANGED es_rest

ESNext == CreateEntryStrategyCall

-----------------------------------------------------------------------------
(* Specifications *)

InitBacktest == BTInit /\ FIdle /\ CIdle /\ TGIdle /\ CMIdle /\ PSIdle /\ SRIdle /\ TSIdle /\ RBIdle /\ VCIdle /\ ESIdle
SpecBacktest == InitBacktest /\ [][BTNext]_vars

InitBacktestVolatile == BTInitVolatile /\ FIdle /\ CIdle /\ TGIdle /\ CMIdle /\ PSIdle /\ SRIdle /\ TSIdle /\ RBIdle /\ VCIdle /\ ESIdle
SpecBacktestVolatile == InitBacktestVolatile /\ [][BTNext]_vars

\* the portfolio of a backtest that is not running
BTIdle ==
    /\ bt_pc = "idle"
    /\ bt_i = 0
    /\ current_price = 0
    /\ capital = InitCap
    /\ positions = <<>>
    /\ trades = <<>>
    /\ equity_curve = <<>>
    /\ results = NoResult
    /\ bt_data = "calm"

InitFetch == FIdle /\ BTIdle /\ CIdle /\ TGIdle /\ CMIdle /\ PSIdle /\ SRIdle /\ TSIdle /\ RBIdle /\ VCIdle /\ ESIdle
\* fetch_price_data is sequential code: once called it runs to its return
SpecFetch == InitFetch /\ [][FNext]_vars /\ WF_vars(FNext)
InitCommand == CInit /\ BTIdle /\ FIdle /\ TGIdle /\ CMIdle /\ PSIdle /\ SRIdle /\ TSIdle /\ RBIdle /\ VCIdle /\ ESIdle
SpecCommand == InitCommand /\ [][CNext]_vars

InitTelegram == TGInit /\ BTIdle /\ FIdle /\ CIdle /\ CMIdle /\ PSIdle /\ SRIdle /\ TSIdle /\ RBIdle /\ VCIdle /\ ESIdle
SpecTelegram == InitTelegram /\ [][TGNext]_vars

InitCache == CMInit /\ BTIdle /\ FIdle /\ CIdle /\ TGIdle /\ PSIdle /\ SRIdle /\ TSIdle /\ RBIdle /\ VCIdle /\ ESIdle
SpecCache == InitCache /\ [][CMNext]_vars

InitSizing == PSInit /\ BTIdle /\ FIdle /\ CIdle /\ TGIdle /\ CMIdle /\ SRIdle /\ TSIdle /\ RBIdle /\ VCIdle /\ ESIdle
SpecSizing == InitSizing /\ [][PSNext]_vars

InitLevels == SRInit /\ BTIdle /\ FIdle /\ CIdle /\ TGIdle /\ CMIdle /\ PSIdle /\ TSIdle /\ RBIdle /\ VCIdle /\ ESIdle
SpecLevels == InitLevels /\ [][SRNext]_vars

InitTrailing == TSInit /\ BTIdle /\ FIdle /\ CIdle /\ TGIdle /\ CMIdle /\ PSIdle /\ SRIdle /\ RBIdle /\ VCIdle /\ ESIdle
SpecTrailing == InitTrailing /\ [][TSNext]_vars

InitRebalance == RBInit /\ BTIdle /\ FIdle /\ CIdle /\ TGIdle /\ CMIdle /\ PSIdle /\ SRIdle /\ TSIdle /\ VCIdle /\ ESIdle
SpecRebalance == InitRebalance /\ [][RBNext]_vars

InitValidCommand == VCInit /\ BTIdle /\ FIdle /\ CIdle /\ TGIdle /\ CMIdle /\ PSIdle /\ SRIdle /\ TSIdle /\ RBIdle /\ ESIdle
SpecValidCommand == InitValidCommand /\ [][VCNext]_vars

InitStrategy == ESInit /\ BTIdle /\ FIdle /\ CIdle /\ TGIdle /\ CMIdle /\ PSIdle /\ SRIdle /\ TSIdle /\ RBIdle /\ VCIdle
SpecStrategy == InitStrategy /\ [][ESNext]_vars

-----------------------------------------------------------------------------
(* Claims about run_backtest *)

RECURSIVE SumPnl(_)
SumPnl(ts) == IF ts = <<>> THEN 0 ELSE ts[1].pnl + SumPnl(Tail(ts))

\* rounding allowance of the fixed-point arithmetic: one dollar
Tol == Scale

\* C1: after each simulated day has been recorded, the last equity-curve value
\* is the cash left after that day's exits and entry plus shares * Close of
\* every position still open, and one value has been appended per day.
C1_EquityIsCashPlusOpenValue ==
    (bt_pc = "loop" /\ bt_i > 0) =>
        /\ Len(equity_curve) = bt_i + 1
        /\ Last(equity_curve) = capital + PositionsValue(positions, current_price)

\* C1 witness: a day was recorded while a position was open
C1_Witness ==
    /\ bt_pc = "loop"
    /\ bt_i > 1
    /\ positions # <<>>
    /\ Last(equity_curve) # capital

\* C2: when run_backtest has returned with at least one trade, final_capital
\* equals initial_capital plus the sum of the trades' pnl.
C2_FinalEquityConserved ==
    (bt_pc = "done" /\ trades # <<>>) =>
        Abs(results.final_capital - (InitCap + SumPnl(trades))) <= Tol

\* C3: at most one position is open in every state, and the position list
\* grows only in the entry check of a day, from an empty list with capital > 0.
C3_SinglePosition ==
    /\ [](Len(positions) <= 1)
    /\ [][Len(positions') > Len(positions) =>
            (bt_pc = "entry" /\ positions = <<>> /\ capital > 0)]_vars

\* C3 witness: a position was opened today after an earlier one was closed
C3_Witness ==
    /\ bt_pc = "record"
    /\ Len(positions) = 1
    /\ positions[1].entry_date = bt_i
    /\ trades # <<>>

-----------------------------------------------------------------------------
(* Claims about fetch_price_data *)

OkCalls == { k \in 1..Len(f_calls) : f_calls[k].outcome = "ok" }

\* C4: a provider call whose series is non-empty and valid is the last call
\* made and its series is what fetch_price_data returns; once returned, the
\* result is None exactly when no call produced such a series.
C4_FirstValidSeries ==
    /\ \A k \in OkCalls :
          /\ k = Len(f_calls)
          /\ f_pc = "done"
          /\ f_ret = Series(f_calls[k])
    /\ f_pc = "done" => (f_ret = ReturnNone <=> OkCalls = {})

\* C4 witness: the second fallback ticker delivered after earlier failures
C4_Witness ==
    /\ f_pc = "done"
    /\ Len(f_calls) > 3
    /\ f_ret = << "XAGUSD=X", 1 >>

\* position of a ticker in the candidate list of the call
TickerIndex(ticker) ==
    CHOOSE n \in 1..Len(Candidates) : Candidates[n] = ticker

\* the call that must follow call c, as << ticker index, attempt >>;
\* << 0, 0 >> when the function returns instead
Successor(c) ==
    IF c.outcome = "ok" THEN << 0, 0 >>
    ELSE IF c.outcome = "raise" /\ c.attempt < retry_count - 1
    THEN << TickerIndex(c.ticker), c.attempt + 1 >>
    ELSE << TickerIndex(c.ticker) + 1, 0 >>

\* C5 (order): the first call is attempt 0 on the primary ticker; a call that
\* raised before the last attempt is followed by the next attempt on the same
\* ticker; any other failed call is followed by attempt 0 on the next
\* candidate; no ticker is visited again.
C5_Order ==
    f_pc \in { "try", "done" } /\ f_calls # << >> =>
        /\ f_calls[1].ticker = Candidates[1] /\ f_calls[1].attempt = 0
        /\ \A k \in 1..(Len(f_calls) - 1) :
              << TickerIndex(f_calls[k + 1].ticker), f_calls[k + 1].attempt >>
                  = Successor(f_calls[k])
        /\ \A k \in 1..Len(f_calls) : f_calls[k].attempt < retry_count
        /\ f_pc = "try" => << f_t, f_attempt >> = Successor(Last(f_calls))

\* C5 (bound): at most retry_count calls per candidate ticker
C5_Bound == f_pc # "idle" /\ ValidateAssetName(f_args.asset_name) =>
                Len(f_calls) <= retry_count * Len(Candidates)

\* C5: the order and the bound hold throughout, and every call returns.
C5_RetryThenFallback ==
    /\ [](C5_Order /\ C5_Bound)
    /\ (f_pc = "try") ~> (f_pc = "done")

\* C5 witness: all attempts on all candidates were used up
C5_Witness ==
    /\ f_pc = "done"
    /\ Len(f_calls) = retry_count * Len(Candidates)
    /\ f_ret = ReturnNone
    /\ f_errors = 1

-----------------------------------------------------------------------------
(* Claims about run_command and run_full_analysis *)

\* C6: when the fetch of run_full_analysis returned None, the run only logs
\* the error and returns: nothing is analysed, reported, charted, exported or
\* sent, and no exception is raised.
C6_AbsentDataAbortsFullAnalysis ==
    (c_path = "run_full_analysis" /\ c_data = None) =>
        /\ c_pc \in { "full_abort", "returned" }
        /\ c_out \subseteq { "error_logged" }
        /\ c_pc = "returned" => c_out = { "error_logged" }
        /\ c_exc = None

\* C6 witness: run_full_analysis returned after a failed fetch
C6_Witness ==
    /\ c_path = "run_full_analysis"
    /\ c_data = None
    /\ c_pc = "returned"
    /\ "error_logged" \in c_out

\* C7: whatever analysis type the command parses to, run_command calls a
\* method that exists, and no exception is raised by the dispatch.
C7_DispatchReachesExistingPath ==
    c_pc # "start" =>
        /\ c_path \in Methods
        /\ ~(c_pc = "raised" /\ c_data = "unset")

\* C8: a backtest without trades returns the degenerate result and the
\* backtest path of run_command ends without an exception.
C8_NoTradeBacktestCompletes ==
    (c_path = "_run_backtest" /\ bt_pc = "done" /\ trades = <<>>) =>
        /\ results.total_trades = 0
        /\ "error" \in DOMAIN results
        /\ c_exc = None

\* C9: when the fetch returned None in the Monte-Carlo-only, strategy-only or
\* backtest path, the path produces nothing but a logged error and no
\* exception leaves run_command.
C9_AbsentDataAbortsPath ==
    (/\ c_path \in { "_run_monte_carlo_only", "_run_strategy_only", "_run_backtest" }
     /\ c_data = None) =>
        /\ c_exc = None
        /\ c_out \subseteq { "error_logged" }
        /\ c_pc = "returned" => "error_logged" \in c_out

\* C10: when the bot token or the chat id is not configured, send_message,
\* send_photo, send_media_group and send_full_report return false, and no
\* HTTP request is issued and no file is opened.
C10_DisabledSendsNothing ==
    (tg_token = "" \/ tg_chat = "") =>
        /\ tg_requests = <<>>
        /\ tg_opened = <<>>
        /\ tg_pc \in { "idle", "done" }
        /\ tg_pc = "done" => tg_ret = FALSE

\* a full report with an existing chart, asked of a sender that has a token
\* but no chat id, has returned
C10_Witness ==
    /\ tg_token = "token"
    /\ tg_chat = ""
    /\ tg_pc = "done"
    /\ tg_op = "send_full_report"
    /\ \E k \in DOMAIN tg_args.chart_paths : tg_args.chart_paths[k]
    /\ tg_ret = FALSE

\* chunk is made of whole consecutive lines of the text
WholeLines(chunk, lines) ==
    \E a \in 1..Len(lines) : \E b \in a..Len(lines) : chunk = SubSeq(lines, a, b)

\* the chunk lists the two splitting functions give for the message sent
SplitResults ==
    { tg_chunks, split_long_message(tg_args.message, max_message_length) }

\* C11: for a message longer than the limit, every chunk of _split_message
\* and of split_long_message is at most 4096 characters long and consists
\* of whole consecutive lines of the message.
C11_ChunksWithinLimit ==
    (tg_chunks # <<>> /\ TextLen(tg_args.message) > max_message_length) =>
        \A chunks \in SplitResults : \A k \in 1..Len(chunks) :
            /\ TextLen(chunks[k]) <= max_message_length
            /\ WholeLines(chunks[k], tg_args.message)

\* C12: joining the chunks of _split_message with newlines reproduces the
\* message exactly, and no chunk is empty.
C12_JoinReproducesMessage ==
    tg_chunks # <<>> =>
        \A chunks \in SplitResults :
            /\ JoinChunks(chunks) = tg_args.message
            /\ \A k \in 1..Len(chunks) :
                  chunks[k] = <<>> => tg_args.message = << 0 >>

\* C13: after save_to_cache(series, asset, period) succeeds,
\* load_from_cache(asset, period) returns the saved series while the age
\* of the entry does not exceed cache_duration_hours, and absent once the
\* age exceeds it.
C13_CacheRoundTrip ==
    (cm_call.op = "load" /\ cm_saved[cm_call.args] # NotSaved) =>
        LET saved == cm_saved[cm_call.args]
        IN IF cm_call.at - saved[2] <= cache_duration_hours
           THEN cm_call.ret = saved
           ELSE cm_call.ret = ReturnNone

\* a series loaded back when it is exactly cache_duration_hours old
C13_Witness ==
    /\ cm_call.op = "load"
    /\ cm_saved[cm_call.args] # NotSaved
    /\ cm_call.at - cm_saved[cm_call.args][2] = cache_duration_hours
    /\ cm_call.ret = cm_saved[cm_call.args]

\* a series loaded after it has become older than cache_duration_hours
C13_WitnessExpired ==
    /\ cm_call.op = "load"
    /\ cm_saved[cm_call.args] # NotSaved
    /\ cm_call.at - cm_saved[cm_call.args][2] > cache_duration_hours
    /\ cm_call.ret = ReturnNone

\* capital * riskPct for the riskPct supplied, 2% when it was omitted
SuppliedRisk(cap, risk_pct) ==
    IF risk_pct = NoRiskPct
    THEN MulDiv(cap, risk_per_trade_num, risk_per_trade_den)
    ELSE MulDiv(cap, risk_pct[1], risk_pct[2])

\* C14: for capital > 0 and entry > stop, calculate_position_size returns
\* shares with shares x (entry - stop) = capital x riskPct for the riskPct
\* supplied (2% when omitted); for stop >= entry it returns shares = 0 with
\* an error tag.
C14_PositionSizeReconstructsRisk ==
    ps_pc = "returned" =>
        IF ps_args.entry_price > ps_args.stop_loss
        THEN /\ ps_args.capital > 0
             /\ ps_ret.shares >= 0
             /\ Abs(MulDiv(ps_ret.shares, ps_args.entry_price - ps_args.stop_loss,
                           ShareScale)
                    - SuppliedRisk(ps_args.capital, ps_args.risk_pct)) <= Tol
        ELSE /\ ps_ret.shares = 0
             /\ "error" \in DOMAIN ps_ret

\* the keyword groups below the full-analysis phrasing, in priority order,
\* each with the analysis type it stands for
PriorityOrder ==
    << << "monte", "monte_carlo" >>, << "technical", "technical" >>,
       << "levels", "support_resistance" >>, << "strategy", "strategy" >>,
       << "backtest", "backtest" >> >>

\* C15: full-analysis phrasing yields full_analysis whatever other keywords
\* are present; otherwise the first matching group in the order Monte
\* Carlo, technical, support/resistance, strategy, backtest gives the type;
\* full_analysis when no group matches.
C15_AnalysisTypePriority ==
    c_type # None =>
        LET matching == { n \in 1..Len(PriorityOrder) : PriorityOrder[n][1] \in c_cmd }
        IN IF "full" \in c_cmd \/ matching = {}
           THEN c_type = "full_analysis"
           ELSE \E n \in matching :
                   /\ \A m \in matching : n <= m
                   /\ c_type = PriorityOrder[n][2]

\* a command with full-analysis phrasing and Monte Carlo and backtest
\* keywords has been parsed
C15_Witness ==
    /\ c_type = "full_analysis"
    /\ { "full", "monte", "backtest" } \subseteq c_cmd

\* a command with strategy and backtest keywords only has been parsed
C15_WitnessOrder ==
    /\ c_type = "strategy"
    /\ c_cmd = { "strategy", "backtest" }

\* C16: the support levels returned are all strictly below the current
\* price (the last Close) and in descending order, the resistance levels
\* all strictly above it and in ascending order, and each list has at most
\* num_levels entries, backfilled levels included.
C16_LevelsOrderedAroundPrice ==
    sr_pc = "returned" =>
        LET price == sr_args.data[Len(sr_args.data)].Close
            support == sr_ret.support
            resistance == sr_ret.resistance
        IN /\ \A k \in 1..Len(support) : support[k] < price
           /\ \A k \in 1..(Len(support) - 1) : support[k] >= support[k + 1]
           /\ \A k \in 1..Len(resistance) : resistance[k] > price
           /\ \A k \in 1..(Len(resistance) - 1) : resistance[k] <= resistance[k + 1]
           /\ Len(support) <= sr_args.num_levels
           /\ Len(resistance) <= sr_args.num_levels

\* two support levels returned, one of them backfilled from the raw lows,
\* while a low equal to the current price was left out
C16_Witness ==
    /\ sr_pc = "returned"
    /\ Len(sr_ret.support) = 2
    /\ Len(sr_ret.resistance) >= 1
    /\ \E k \in 1..Len(sr_args.data) :
          sr_args.data[k].Low = sr_args.data[Len(sr_args.data)].Close

ExitReasons == { "stop_loss", "target", "backtest_end" }

\* the trades of the list ts that close the position opened on entry_date
TradesOf(ts, entry_date) == { k \in 1..Len(ts) : ts[k].entry_date = entry_date }

\* when run_backtest has returned: every trade has one of the three exit
\* reasons, no position appears twice, and each position that was open
\* after the last bar has its one trade, closed at the final Close less
\* slippage with reason backtest_end
ResolvedAtReturn ==
    bt_pc = "done" =>
        /\ \A k \in 1..Len(trades) :
              /\ trades[k].exit_reason \in ExitReasons
              /\ TradesOf(trades, trades[k].entry_date) = { k }
        /\ \A n \in 1..Len(positions) :
              \E k \in 1..Len(trades) :
                 /\ TradesOf(trades, positions[n].entry_date) = { k }
                 /\ trades[k].exit_reason = "backtest_end"
                 /\ trades[k].exit_price = SlipDown(current_price)
                 /\ trades[k].shares = positions[n].shares

\* a step never loses an open position without a trade for it, and never
\* adds a trade for a position that was not open
ClosedIntoTrades ==
    /\ \A n \in 1..Len(positions) :
          \/ \E m \in 1..Len(positions') : positions'[m] = positions[n]
          \/ \E k \in (Len(trades) + 1)..Len(trades') :
                trades'[k].entry_date = positions[n].entry_date
    /\ Len(trades') >= Len(trades)
    /\ \A k \in (Len(trades) + 1)..Len(trades') :
          \E n \in 1..Len(positions) :
             trades'[k].entry_date = positions[n].entry_date

\* C17: when run_backtest returns no position is left unresolved: every
\* position ever opened is in the trade list exactly once, with exit reason
\* stop_loss, target or backtest_end, and a position still open after the
\* last bar is closed at the final Close x (1 - slippage) as backtest_end.
C17_NoPositionLeftUnresolved ==
    [] ResolvedAtReturn /\ [][ClosedIntoTrades]_vars

\* a run that stopped one position out and force-closed another at the end
C17_Witness ==
    /\ bt_pc = "done"
    /\ \E k \in 1..Len(trades) : trades[k].exit_reason = "stop_loss"
    /\ \E k \in 1..Len(trades) : trades[k].exit_reason = "backtest_end"
    /\ Len(positions) = 1

\* the position meets the stop-loss or the target rule at the price
ExitDue(position, price) == price <= position.stop_loss \/ price >= position.target

\* when the entry check of a day starts, every open position has been put
\* through that day's exit checks; a stop-loss or target exit is on a later
\* day than the entry; exits are listed in day order
ExitsBeforeEntry ==
    /\ bt_pc = "entry" =>
          \A n \in 1..Len(positions) : ~ExitDue(positions[n], current_price)
    /\ \A n \in 1..Len(positions) : positions[n].entry_date <= bt_i
    /\ \A k \in 1..Len(trades) :
          /\ trades[k].exit_reason # "backtest_end" =>
                trades[k].entry_date < trades[k].exit_date
          /\ k > 1 => trades[k - 1].exit_date <= trades[k].exit_date

\* days go up one at a time; positions are closed only by the exit checks
\* and opened only by the entry check, on the current day
DaysAscend ==
    /\ bt_i' \in { bt_i, bt_i + 1 }
    /\ Len(positions') < Len(positions) => bt_pc = "exits"
    /\ Len(positions') > Len(positions) =>
          /\ bt_pc = "entry"
          /\ positions'[Len(positions')].entry_date = bt_i

\* C18: days are processed in ascending order and, within a day, the exit
\* checks are finished before the entry check; so a position opened on day
\* i is first tested on day i + 1, and a position closed on day i may be
\* followed by a new entry on the same day.
C18_ExitChecksPrecedeEntry ==
    [] ExitsBeforeEntry /\ [][DaysAscend]_vars

\* a position was closed and a new one opened on the same day
C18_Witness ==
    /\ Len(positions) = 1
    /\ \E k \in 1..Len(trades) :
          /\ trades[k].exit_date = positions[1].entry_date
          /\ trades[k].exit_reason \in { "stop_loss", "target" }

\* the trade the exit rule asks for when the position leaves at the level
\* (its stop-loss or its target) for the reason given
RuleTrade(position, level, reason, t) ==
    LET exit == MulDiv(level, slippage_den - slippage_num, slippage_den)
        gross == MulDiv(exit - position.entry_price, position.shares, ShareScale)
        fee == MulDiv(MulDiv(position.shares, exit, ShareScale),
                      commission_num, commission_den)
    IN /\ t.exit_reason = reason
       /\ t.exit_price = exit
       /\ t.pnl = gross - fee
       /\ t.shares = position.shares
       /\ t.entry_price = position.entry_price

\* the exit rule for one open position at the day's Close: before and after
\* are the position and trade lists around the check
ExitRule(position, price, before, after) ==
    IF price <= position.stop_loss
    THEN /\ after.positions = << >>
         /\ Len(after.trades) = Len(before.trades) + 1
         /\ RuleTrade(position, position.stop_loss, "stop_loss",
                      after.trades[Len(after.trades)])
    ELSE IF price >= position.target
    THEN /\ after.positions = << >>
         /\ Len(after.trades) = Len(before.trades) + 1
         /\ RuleTrade(position, position.target, "target",
                      after.trades[Len(after.trades)])
    ELSE /\ after.positions = before.positions
         /\ after.trades = before.trades

\* the exit checks of a day obey the rule for the open position
ExitChecksObeyRule ==
    (bt_pc = "exits" /\ bt_pc' = "entry" /\ positions # << >>) =>
        ExitRule(positions[1], current_price,
                 [ positions |-> positions, trades |-> trades ],
                 [ positions |-> positions', trades |-> trades' ])

\* positions on which both rules can hold at once, and the check of each
RulePositions ==
    { [ entry_date |-> 1, entry_price |-> 25 * Scale, shares |-> 4 * ShareScale,
        stop_loss |-> s, target |-> t ] : s \in Prices, t \in Prices }

ExitCheckObeysRule ==
    \A position \in RulePositions : \A price \in Prices :
        LET before == [ capital |-> InitCap, positions |-> << position >>,
                        trades |-> << >> ]
        IN ExitRule(position, price, before, ExitCheck(before, position, 2, price))

\* C19: for an open position, Close <= stop_loss closes it at
\* stop_loss x (1 - slippage) as stop_loss; otherwise Close >= target closes
\* it at target x (1 - slippage) as target; otherwise it stays open and
\* unchanged.  The stop-loss rule comes first when both hold, and pnl is
\* (exit - entry) x shares - shares x exit x commission.
C19_ExitRule ==
    [] ExitCheckObeysRule /\ [][ExitChecksObeyRule]_vars

\* one position has left at its stop-loss and a later one at its target
C19_Witness ==
    /\ \E k \in 1..Len(trades) : trades[k].exit_reason = "stop_loss"
    /\ \E k \in 1..Len(trades) : trades[k].exit_reason = "target"

\* C20: an attempt that returns an empty series or a series failing
\* validate_price_data ends the attempts for its ticker at once, with the
\* remaining retries unused, and the next candidate ticker is tried.
C20_EmptyOrInvalidAbandonsTicker ==
    \A k \in 1..Len(f_calls) :
        f_calls[k].outcome \in { "empty", "invalid" } =>
            LET t == TickerIndex(f_calls[k].ticker)
            IN /\ \A j \in (k + 1)..Len(f_calls) : f_calls[j].ticker # f_calls[k].ticker
               /\ k < Len(f_calls) =>
                     /\ f_calls[k + 1].ticker = Candidates[t + 1]
                     /\ f_calls[k + 1].attempt = 0
               /\ (k = Len(f_calls) /\ f_pc = "try") => (f_t = t + 1 /\ f_attempt = 0)
               /\ (k = Len(f_calls) /\ f_pc = "done") =>
                     (t = Len(Candidates) /\ f_ret = ReturnNone)

\* the first ticker gave an empty series on its first attempt, the second
\* an invalid one on a retry, and the third was tried after them
C20_Witness ==
    /\ Len(f_calls) = 4
    /\ f_calls[1].outcome = "empty" /\ f_calls[1].attempt = 0
    /\ f_calls[2].outcome = "raise"
    /\ f_calls[3].outcome = "invalid" /\ f_calls[3].attempt = 1
    /\ f_calls[4].ticker = Candidates[3] /\ f_calls[4].attempt = 0

\* the period tokens the data provider recognizes
RecognizedPeriods ==
    { "1d", "5d", "1mo", "3mo", "6mo", "1y", "2y", "5y", "10y", "ytd", "max" }

\* C21: called with a period token and no explicit date range, the provider
\* is queried with that token when it is a recognized one, and with the
\* default period 10y only when it is not; so the '2y' of run_full_analysis
\* queries 2 years of data.
C21_RecognizedPeriodIsQueried ==
    (f_pc # "idle" /\ f_args.period # None
        /\ ~f_args.start_date /\ ~f_args.end_date) =>
        \A k \in 1..Len(f_calls) :
            f_calls[k].query = IF f_args.period \in RecognizedPeriods
                               THEN f_args.period ELSE default_period

\* the sendMessage requests issued so far, in the order of issue
MessagePosts == SelectSeq(tg_requests, LAMBDA r : r.method = "sendMessage")

\* C22: send_message posts the chunks one at a time in their order; at the
\* first chunk whose post raises or returns a non-200 status it stops and
\* returns false; it returns true only if every chunk was posted
\* successfully; a failed chunk is never retried.
C22_ChunksInOrderStopAtFailure ==
    LET posts == MessagePosts
    IN /\ Len(posts) <= Len(tg_chunks)
       /\ \A k \in 1..Len(posts) :
             /\ posts[k].text = tg_chunks[k]
             /\ k < Len(posts) => posts[k].outcome = "200"
       /\ (tg_op = "send_message" /\ tg_pc = "done"
              /\ IsTelegramEnabled(tg_token, tg_chat)) =>
             /\ posts # << >>
             /\ tg_ret = (Len(posts) = Len(tg_chunks)
                             /\ posts[Len(posts)].outcome = "200")
             /\ tg_ret = FALSE => posts[Len(posts)].outcome # "200"

\* a message of three chunks whose second post failed
C22_Witness ==
    /\ tg_op = "send_message"
    /\ tg_pc = "done"
    /\ Len(tg_chunks) = 3
    /\ Len(MessagePosts) = 2
    /\ MessagePosts[2].outcome # "200"
    /\ tg_ret = FALSE

\* the indices (from 0) of the listed paths whose file exists, in order
ExistingPaths(photo_paths) ==
    SelectSeq([ k \in 1..Len(photo_paths) |-> k - 1 ],
              LAMBDA i : photo_paths[i + 1])

\* C23: send_media_group skips every path whose file does not exist,
\* returns false without a request when no listed file exists, and
\* otherwise sends one album in which the caption, when given, is attached
\* to exactly the first image of the album.
C23_AlbumCaptionOnFirstImage ==
    (tg_op = "send_media_group" /\ tg_pc = "done"
        /\ IsTelegramEnabled(tg_token, tg_chat)) =>
        LET existing == ExistingPaths(tg_args.photo_paths)
        IN IF existing = << >>
           THEN tg_requests = << >> /\ tg_ret = FALSE
           ELSE /\ Len(tg_requests) = 1
                /\ tg_requests[1].method = "sendMediaGroup"
                /\ LET media == tg_requests[1].media
                   IN /\ [ k \in 1..Len(media) |-> media[k].media ] = existing
                      /\ \A k \in 1..Len(media) :
                            media[k].caption = IF k = 1 THEN tg_args.caption ELSE None

\* the file of the entry the last call was about
CalledFile == cm_files[GenerateCacheKey(cm_call.args[1], cm_call.args[2])]

\* whether load_from_cache hands back the stored series for the file
Loads(file, now) ==
    /\ file.kind = "cache_data"
    /\ LoadResult(file, now) = << file.data, file.timestamp >>

\* is_cache_valid has answered as load_from_cache would, and a load that
\* returned nothing was of a file is_cache_valid calls invalid
ValidMirrorsLoad ==
    /\ cm_call.op = "valid" =>
          (cm_call.ret = TRUE <=> Loads(CalledFile, cm_call.at))
    /\ cm_call.op = "load" =>
          (cm_call.ret # ReturnNone <=> ValidResult(CalledFile, cm_call.at))

\* a step of load_from_cache or is_cache_valid leaves the cache as it was
ReadsLeaveCache ==
    (cm_call' # cm_call /\ cm_call'.op \in { "load", "valid" }) =>
        cm_files' = cm_files

\* C24: in every cache state for a key (no file, fresh entry, expired
\* entry, corrupt file) is_cache_valid is true exactly when load_from_cache
\* would return the stored series, and neither modifies the cache.
C24_ValidIffLoadReturns ==
    [] ValidMirrorsLoad /\ [][ReadsLeaveCache]_vars

\* is_cache_valid was asked about an entry exactly cache_duration_hours old
C24_Witness ==
    /\ cm_call.op = "valid"
    /\ cm_call.ret = TRUE
    /\ CalledFile.kind = "cache_data"
    /\ cm_call.at - CalledFile.timestamp = cache_duration_hours

\* C25: trailing_stop_loss never returns a stop below the initial_stop it
\* was given, and returns it unchanged when current price <= entry price;
\* so over a sequence of calls, each fed the result of the one before, the
\* stop never goes down.
C25_TrailingStopNeverRetreats ==
    ts_pc = "open" =>
        /\ ts_stop >= ts_prev
        /\ ts_prev >= ts_args.initial_stop
        /\ (ts_n > 0 /\ ts_price <= ts_args.entry_price) => ts_stop = ts_prev

\* the stop was raised, and a later call at a lower price that would have
\* put it lower kept it
C25_Witness ==
    /\ ts_n >= 2
    /\ ts_prev > ts_args.initial_stop
    /\ ts_stop = ts_prev
    /\ ts_price > ts_args.entry_price
    /\ ts_price - MulDiv(ts_args.atr, ts_args.trailing_multiplier, 10) < ts_prev

\* the entries of the returned actions for one asset
ActionsFor(asset) ==
    { i \in 1..Len(rb_ret.actions) : rb_ret.actions[i].asset = asset }

\* C26: rebalance_position flags a position exactly when its share of the
\* total portfolio value differs from its target percent by more than 5
\* percentage points; the action is a buy when the target value exceeds
\* the current value and a sell otherwise, the amount is the absolute
\* value difference, and rebalancing_needed is true exactly when a
\* position is flagged.
C26_FlaggedBeyondFivePoints ==
    (rb_pc = "done" /\ "actions" \in DOMAIN rb_ret) =>
        LET total_value == rb_ret.total_portfolio_value
            held == rb_args.current_positions
            target(p) == TargetPct(rb_args.target_allocation, p.asset)
        IN /\ \A k \in 1..Len(held) :
                LET p == held[k]
                IN /\ ActionsFor(p.asset) # {}
                        <=> Abs(p.value * 100 - target(p) * total_value)
                                > 5 * total_value
                   /\ \A i \in ActionsFor(p.asset) :
                        /\ rb_ret.actions[i].action =
                             IF total_value * target(p) > p.value * 100
                             THEN "Al" ELSE "Sat"
                        /\ rb_ret.actions[i].amount * 100 =
                             Abs(total_value * target(p) - p.value * 100)
           /\ rb_ret.rebalancing_needed <=> Len(rb_ret.actions) > 0

\* the text contains a keyword parse_command recognizes
RecognizedKeyword(command) ==
    \/ AnyIn(silver_keywords, command)
    \/ AnyIn(gold_keywords, command)
    \/ GroupsIn(command) # {}

\* C27: is_valid_command rejects a text exactly when it has fewer than 3
\* characters after trimming or contains none of the asset and analysis
\* keywords parse_command recognizes; a text of at least 3 characters with
\* a keyword that gives parse_command its asset or a non-default analysis
\* type is accepted.
C27_ValidIffParseRecognizes ==
    vc_pc = "done" =>
        LET lowered == Strip(Lower(vc_args))
        IN /\ vc_ret = << FALSE >>
                <=> (Len(lowered) < 3 \/ ~RecognizedKeyword(lowered))
           /\ ( /\ Len(lowered) >= 3
                /\ \/ AnyIn(silver_keywords, lowered)
                   \/ AnyIn(gold_keywords, lowered)
                   \/ ParseCommand(vc_args).analysis_type # "full_analysis" )
                => vc_ret = << TRUE >>

\* what a path hands to the messaging channel
TelegramOutputs == { "telegram_report", "telegram_message" }

\* C28: when run_command is called with send_telegram = false, nothing is
\* sent to the messaging channel, whichever analysis type the command
\* parses to, the types of the default full-analysis branch included.
C28_NoSendWhenTelegramOff ==
    ~c_send => c_out \cap TelegramOutputs = {}

\* a step that closes positions: trades are appended only by the exit
\* checks and by the close at the end of the backtest
Closes == Len(trades') > Len(trades)

\* a step that buys
Buys == Len(positions') > Len(positions)

\* C29: the cash balance of run_backtest is never negative: a purchase is
\* made only when its cost with commission does not exceed the cash, and
\* closing a position, by stop-loss, target or end of backtest, never
\* reduces the cash.
C29_CashNeverNegative ==
    /\ [](capital >= 0)
    /\ [][Buys => capital - capital' <= capital]_vars
    /\ [][Closes => capital' >= capital]_vars

\* C30: in every strategy create_entry_strategy returns for a price > 0,
\* an ATR >= 0 and supports below the price in descending order, the
\* stop-loss is strictly below the price of each of the three entry tiers.
C30_StopBelowEveryTier ==
    es_pc = "done" =>
        \A k \in 1..Len(es_ret.entries) : es_ret.stop_loss < es_ret.entries[k].price

====
